---- MODULE Spec2Model ----
(***************************************************************************)
(* Model of the native mail side-car (rdawebb/Kernel, native/go):          *)
(*   - pool.ConnectionPool        (internal/protocol/protocol.go 35-101)   *)
(*   - imap.Connection / smtp.Connection and their data operations         *)
(*   - imap.Handler / smtp.Handler (the request router's action handlers)  *)
(* Caller tasks (one goroutine per accepted caller connection) run the     *)
(* handlers concurrently; every sync.RWMutex is modelled explicitly, so a  *)
(* step is what one goroutine does between two lock or server operations.  *)
(***************************************************************************)
EXTENDS Integers, Sequences, FiniteSets, TLC

\* ------------------------------------------------------------------ bounds

\* The code's resident-connection limit is 10000 (protocol.go:63); the model
\* checks the same comparison against a small limit.
PoolLimit == 2

\* Handles the model lets a pool issue (caps the uint64 counter nextID).
MaxHandle == 3

\* The caller tasks (goroutines started by main's accept loop).
Tasks == {1, 2}

\* Connection objects a process run creates (successful Connects).
MaxConns == 1

\* Connection objects a run that fills a pool creates.
MaxObjs == PoolLimit + 1

\* The Connection objects (0 is the nil pointer).
Conns == 1 .. MaxObjs

\* Opaque connection values handed to ConnectionPool.Add (conn any) when the
\* pool is driven directly.
PoolConns == {1, 2}

\* The two handlers, each owning one pool (imap.NewHandler, smtp.NewHandler).
Modules == {"imap", "smtp"}

\* The pool driven directly through its API in SpecPool.
PoolUnderTest == "imap"

\* Handle arguments callers pass: 0 (never issued) and every issuable handle.
HandleArgs == 0 .. MaxHandle

\* ------------------------------------------------------------------ errors

ErrNil == "nil"
ErrLimit == "connection pool limit reached"
ErrInvalidHandle == "invalid connection handle"

NoConn == 0

\* FetchMessage is not running: no channels, no helper goroutine.
NoFetch ==
    [messages |-> <<>>, open |-> FALSE, done |-> "none", helper |-> "none",
     pending |-> 0, sent |-> 0, msg |-> 0, status |-> "none"]

\* ------------------------------------------------------------------- state

VARIABLES
    connections,  \* [Modules -> [handle -> conn]]   ConnectionPool.connections
    nextID,       \* [Modules -> Nat]                ConnectionPool.nextID
    poolMu,       \* [Modules -> [w, r]]             ConnectionPool.mu
    pc,           \* [Tasks -> position in the code]
    req,          \* [Tasks -> the call or request the task is serving]
    cur,          \* [Tasks -> conn]   the conn argument / the conn Get returned
    ret,          \* [Tasks -> [val, err]]  what the last call returned
    issued,       \* history: [Modules -> Seq([handle, conn])] successful Adds
    removed,      \* history: [Modules -> issued handles Remove has deleted]
    kind,         \* [Conns -> module of the Connection, "none" before Connect]
    closed,       \* [Conns -> BOOLEAN]        Connection.closed
    client,       \* [Conns -> transport | 0]  Connection.client (0 is nil)
    connMu,       \* [Conns -> [w, r]]         Connection.mu
    crashed,      \* the process has panicked (nil dereference, failed downcast)
    lclient,      \* [Tasks -> transport | 0]  the method's local `client`
    cmd,          \* [Tasks -> the server command the task issues or awaits]
    left,         \* [Tasks -> recipients SendMessage has still to declare]
    sess,         \* [Tasks -> the session the task's Connect call built]
    msgs,         \* [Tasks -> the messages the server delivered to a fetch]
    result,       \* [Tasks -> the mapping FetchMessages returns (its keys)]
    lower,        \* [Tasks -> lower bound of the range SearchUIDs asks for]
    logouts,      \* history: [Conns -> Logout/Quit commands Close has sent]
    mark,         \* history: [Tasks -> what the handle was when the request was read]
    form,         \* [Tasks -> how well formed the request line the task read is]
    unanswered,   \* history: [Tasks -> request lines read and not yet answered]
    opened,       \* [Tasks -> the mailbox the server opened for the task's SELECT]
    fetch,        \* [Tasks -> the channels and the helper goroutine of FetchMessage]
    ctxDone,      \* main's cancel() has been called: ctx.Done() is closed
    listenerOpen, \* main's listener has not been closed
    exited        \* main has returned: the process and all its goroutines are gone

vars == <<connections, nextID, poolMu, pc, req, cur, ret, issued, removed,
          kind, closed, client, connMu, crashed, lclient, cmd, left,
          sess, msgs, result, lower, logouts, mark,
          form, unanswered, opened, fetch, ctxDone, listenerOpen, exited>>

\* What the pool's own methods never touch.
otherVars == <<kind, closed, client, connMu, crashed, lclient, cmd, left,
               sess, msgs, result, lower, logouts, mark,
               form, unanswered, opened, fetch, ctxDone, listenerOpen, exited>>

\* The request line in hand and the state of main.
serveVars == <<form, unanswered, ctxDone, listenerOpen, exited>>

\* A goroutine takes steps while the process has neither panicked nor exited.
Running == ~crashed /\ ~exited

poolVars == <<connections, nextID, poolMu>>

\* ------------------------------------------------------------ sync.RWMutex

Unlocked == [w |-> 0, r |-> {}]

\* Mutant: Lock() granted without waiting for the other holders.
CanLockNoExclusion(mu) == TRUE

\* Lock() is granted when no writer and no reader holds the mutex.
CanLock(mu) == mu.w = 0 /\ mu.r = {}

\* Mutant: RLock() granted while a writer holds the mutex.
CanRLockNoWait(mu) == TRUE

\* RLock() is granted when no writer holds the mutex.
CanRLock(mu) == mu.w = 0

Lock(mu, t) == [mu EXCEPT !.w = t]

Unlock(mu, t) == [mu EXCEPT !.w = 0]

RLock(mu, t) == [mu EXCEPT !.r = @ \cup {t}]

RUnlock(mu, t) == [mu EXCEPT !.r = @ \ {t}]

\* ---------------------------------------------------------- ConnectionPool

NoReq == [module |-> PoolUnderTest, action |-> "none", handle |-> 0, n |-> 0]

NoRet == [val |-> 0, err |-> ErrNil]

\* No mailbox is selected.
NoMailbox == [name |-> "", readOnly |-> FALSE]

\* Mutant: the counter starts at 0.
NewConnectionPoolFromZero == [connections |-> << >>, nextID |-> 0]

\* NewConnectionPool: an empty map and nextID = 1.
NewConnectionPool == [connections |-> << >>, nextID |-> 1]

\* len(p.connections)
Resident(m) == Cardinality(DOMAIN connections[m])

\* Mutant: the capacity test is off by one (> for >=).
PoolFullOffByOne(m) == Resident(m) > PoolLimit

\* Add's capacity test: len(p.connections) >= 10000.
PoolFull(m) == Resident(m) >= PoolLimit

\* p.connections[handle] = conn
MapPut(f, h, c) == [x \in (DOMAIN f) \cup {h} |-> IF x = h THEN c ELSE f[x]]

\* Mutant: the entry is not deleted.
MapDeleteKeeps(f, h) == f

\* delete(p.connections, handle): a no-op when the key is absent.
MapDelete(f, h) == [x \in (DOMAIN f) \ {h} |-> f[x]]

\* Mutant: the handle is derived from the resident count, so a removed
\* handle's number is handed out again.
NextHandleReuse(m) == Resident(m) + 1

\* handle := int(p.nextID)
NextHandle(m) == nextID[m]

\* Mutant: the counter is not incremented.
BumpIDStays(m) == nextID[m]

\* p.nextID++
BumpID(m) == nextID[m] + 1

\* Mutant: one map shared by the two handlers.
LookupAnyPool(m, h) ==
    IF \E k \in Modules : h \in DOMAIN connections[k]
    THEN [conn |-> connections[CHOOSE k \in Modules : h \in DOMAIN connections[k]][h],
          err |-> ErrNil]
    ELSE [conn |-> NoConn, err |-> ErrInvalidHandle]

\* conn, ok := p.connections[handle]
Lookup(m, h) ==
    IF h \in DOMAIN connections[m]
    THEN [conn |-> connections[m][h], err |-> ErrNil]
    ELSE [conn |-> NoConn, err |-> ErrInvalidHandle]

\* Handles issued so far by pool m.
IssuedHandles(m) == {issued[m][i].handle : i \in DOMAIN issued[m]}

\* Add: p.mu.Lock()
Add(t) ==
    LET m == req[t].module IN
    /\ pc[t] = "Add"
    /\ Running
    /\ CanLock(poolMu[m])
    /\ poolMu' = [poolMu EXCEPT ![m] = Lock(@, t)]
    /\ pc' = [pc EXCEPT ![t] = "AddCheck"]
    /\ UNCHANGED <<connections, nextID, req, cur, ret, issued, removed, otherVars>>

\* Add: the capacity test, returning the error (and unlocking) when full.
AddCheck(t) ==
    LET m == req[t].module IN
    /\ pc[t] = "AddCheck"
    /\ Running
    /\ IF PoolFull(m)
       THEN /\ ret' = [ret EXCEPT ![t] = [val |-> 0, err |-> ErrLimit]]
            /\ poolMu' = [poolMu EXCEPT ![m] = Unlock(@, t)]
            /\ pc' = [pc EXCEPT ![t] = "AddDone"]
       ELSE /\ pc' = [pc EXCEPT ![t] = "AddInsert"]
            /\ UNCHANGED <<ret, poolMu>>
    /\ UNCHANGED <<connections, nextID, req, cur, issued, removed, otherVars>>

\* Add: take the next handle, store the connection, unlock, return.
AddInsert(t) ==
    LET m == req[t].module
        handle == NextHandle(m)
    IN
    /\ pc[t] = "AddInsert"
    /\ Running
    /\ nextID' = [nextID EXCEPT ![m] = BumpID(m)]
    /\ connections' = [connections EXCEPT ![m] = MapPut(@, handle, cur[t])]
    /\ poolMu' = [poolMu EXCEPT ![m] = Unlock(@, t)]
    /\ ret' = [ret EXCEPT ![t] = [val |-> handle, err |-> ErrNil]]
    /\ issued' = [issued EXCEPT
                    ![m] = Append(@, [handle |-> handle, conn |-> cur[t]])]
    /\ pc' = [pc EXCEPT ![t] = "AddDone"]
    /\ UNCHANGED <<req, cur, removed, otherVars>>

\* Get: p.mu.RLock()
Get(t) ==
    LET m == req[t].module IN
    /\ pc[t] = "Get"
    /\ Running
    /\ CanRLock(poolMu[m])
    /\ poolMu' = [poolMu EXCEPT ![m] = RLock(@, t)]
    /\ pc' = [pc EXCEPT ![t] = "GetBody"]
    /\ UNCHANGED <<connections, nextID, req, cur, ret, issued, removed, otherVars>>

\* Mutant: Get returns without RUnlock.
GetBodyKeepsLock(t) ==
    LET m == req[t].module
        got == Lookup(m, req[t].handle)
    IN
    /\ pc[t] = "GetBody"
    /\ Running
    /\ cur' = [cur EXCEPT ![t] = got.conn]
    /\ ret' = [ret EXCEPT ![t] = [val |-> 0, err |-> got.err]]
    /\ pc' = [pc EXCEPT ![t] = "GetDone"]
    /\ UNCHANGED <<connections, nextID, poolMu, req, issued, removed, otherVars>>

\* Get: the map lookup, RUnlock, return.
GetBody(t) ==
    LET m == req[t].module
        got == Lookup(m, req[t].handle)
    IN
    /\ pc[t] = "GetBody"
    /\ Running
    /\ cur' = [cur EXCEPT ![t] = got.conn]
    /\ ret' = [ret EXCEPT ![t] = [val |-> 0, err |-> got.err]]
    /\ poolMu' = [poolMu EXCEPT ![m] = RUnlock(@, t)]
    /\ pc' = [pc EXCEPT ![t] = "GetDone"]
    /\ UNCHANGED <<connections, nextID, req, issued, removed, otherVars>>

\* Remove: p.mu.Lock()
Remove(t) ==
    LET m == req[t].module IN
    /\ pc[t] = "Remove"
    /\ Running
    /\ CanLock(poolMu[m])
    /\ poolMu' = [poolMu EXCEPT ![m] = Lock(@, t)]
    /\ pc' = [pc EXCEPT ![t] = "RemoveBody"]
    /\ UNCHANGED <<connections, nextID, req, cur, ret, issued, removed, otherVars>>

\* Remove: delete, unlock; Remove returns nothing.
RemoveBody(t) ==
    LET m == req[t].module IN
    /\ pc[t] = "RemoveBody"
    /\ Running
    /\ connections' = [connections EXCEPT ![m] = MapDelete(@, req[t].handle)]
    /\ poolMu' = [poolMu EXCEPT ![m] = Unlock(@, t)]
    /\ removed' = [removed EXCEPT
                     ![m] = @ \cup ({req[t].handle} \cap IssuedHandles(m))]
    /\ ret' = [ret EXCEPT ![t] = NoRet]
    /\ pc' = [pc EXCEPT ![t] = "RemoveDone"]
    /\ UNCHANGED <<nextID, req, cur, issued, otherVars>>

\* Count: p.mu.RLock()
Count(t) ==
    LET m == req[t].module IN
    /\ pc[t] = "Count"
    /\ Running
    /\ CanRLock(poolMu[m])
    /\ poolMu' = [poolMu EXCEPT ![m] = RLock(@, t)]
    /\ pc' = [pc EXCEPT ![t] = "CountBody"]
    /\ UNCHANGED <<connections, nextID, req, cur, ret, issued, removed, otherVars>>

\* Count: len(p.connections), RUnlock, return.
CountBody(t) ==
    LET m == req[t].module IN
    /\ pc[t] = "CountBody"
    /\ Running
    /\ ret' = [ret EXCEPT ![t] = [val |-> Resident(m), err |-> ErrNil]]
    /\ poolMu' = [poolMu EXCEPT ![m] = RUnlock(@, t)]
    /\ pc' = [pc EXCEPT ![t] = "CountDone"]
    /\ UNCHANGED <<connections, nextID, req, cur, issued, removed, otherVars>>

PoolStep(t) ==
    \/ Add(t)
    \/ AddCheck(t)
    \/ AddInsert(t)
    \/ Get(t)
    \/ GetBody(t)
    \/ Remove(t)
    \/ RemoveBody(t)
    \/ Count(t)
    \/ CountBody(t)

\* ------------------------------------------- tasks calling the pool's API

\* Adds that are past their call and have not yet taken a handle.
PendingAdds(m) ==
    Cardinality({t \in Tasks : pc[t] \in {"Add", "AddCheck", "AddInsert"}
                                 /\ req[t].module = m})

CallAdd(t) ==
    /\ pc[t] = "idle"
    /\ Running
    /\ nextID[PoolUnderTest] + PendingAdds(PoolUnderTest) <= MaxHandle
    /\ \E c \in PoolConns :
         /\ cur' = [cur EXCEPT ![t] = c]
         /\ req' = [req EXCEPT ![t] = [NoReq EXCEPT !.action = "pool.Add"]]
    /\ pc' = [pc EXCEPT ![t] = "Add"]
    /\ UNCHANGED <<poolVars, ret, issued, removed, otherVars>>

CallGet(t) ==
    /\ pc[t] = "idle"
    /\ Running
    /\ \E h \in HandleArgs :
         req' = [req EXCEPT
                   ![t] = [NoReq EXCEPT !.action = "pool.Get", !.handle = h]]
    /\ pc' = [pc EXCEPT ![t] = "Get"]
    /\ UNCHANGED <<poolVars, cur, ret, issued, removed, otherVars>>

CallRemove(t) ==
    /\ pc[t] = "idle"
    /\ Running
    /\ \E h \in HandleArgs :
         req' = [req EXCEPT
                   ![t] = [NoReq EXCEPT !.action = "pool.Remove", !.handle = h]]
    /\ pc' = [pc EXCEPT ![t] = "Remove"]
    /\ UNCHANGED <<poolVars, cur, ret, issued, removed, otherVars>>

CallCount(t) ==
    /\ pc[t] = "idle"
    /\ Running
    /\ req' = [req EXCEPT ![t] = [NoReq EXCEPT !.action = "pool.Count"]]
    /\ pc' = [pc EXCEPT ![t] = "Count"]
    /\ UNCHANGED <<poolVars, cur, ret, issued, removed, otherVars>>

\* The caller has its result and goes on to its next call.
Return(t) ==
    /\ pc[t] \in {"AddDone", "GetDone", "RemoveDone", "CountDone"}
    /\ Running
    /\ req[t].action \in {"pool.Add", "pool.Get", "pool.Remove", "pool.Count"}
    /\ pc' = [pc EXCEPT ![t] = "idle"]
    /\ req' = [req EXCEPT ![t] = NoReq]
    /\ cur' = [cur EXCEPT ![t] = NoConn]
    /\ ret' = [ret EXCEPT ![t] = NoRet]
    /\ UNCHANGED <<poolVars, issued, removed, otherVars>>

Init ==
    /\ connections = [m \in Modules |-> NewConnectionPool.connections]
    /\ nextID = [m \in Modules |-> NewConnectionPool.nextID]
    /\ poolMu = [m \in Modules |-> Unlocked]
    /\ pc = [t \in Tasks |-> "idle"]
    /\ req = [t \in Tasks |-> NoReq]
    /\ cur = [t \in Tasks |-> NoConn]
    /\ ret = [t \in Tasks |-> NoRet]
    /\ issued = [m \in Modules |-> << >>]
    /\ removed = [m \in Modules |-> {}]
    /\ kind = [c \in Conns |-> "none"]
    /\ closed = [c \in Conns |-> FALSE]
    /\ client = [c \in Conns |-> 0]
    /\ connMu = [c \in Conns |-> Unlocked]
    /\ crashed = FALSE
    /\ lclient = [t \in Tasks |-> 0]
    /\ cmd = [t \in Tasks |-> "none"]
    /\ left = [t \in Tasks |-> 0]
    /\ sess = [t \in Tasks |-> "none"]
    /\ msgs = [t \in Tasks |-> {}]
    /\ result = [t \in Tasks |-> {}]
    /\ lower = [t \in Tasks |-> 0]
    /\ logouts = [c \in Conns |-> 0]
    /\ mark = [t \in Tasks |-> "none"]
    /\ form = [t \in Tasks |-> "ok"]
    /\ unanswered = [t \in Tasks |-> 0]
    /\ opened = [t \in Tasks |-> NoMailbox]
    /\ fetch = [t \in Tasks |-> NoFetch]
    /\ ctxDone = FALSE
    /\ listenerOpen = TRUE
    /\ exited = FALSE

NextPool ==
    \E t \in Tasks :
        \/ CallAdd(t)
        \/ CallGet(t)
        \/ CallRemove(t)
        \/ CallCount(t)
        \/ Return(t)
        \/ Add(t)
        \/ AddCheck(t)
        \/ AddInsert(t)
        \/ Get(t)
        \/ GetBody(t)
        \/ Remove(t)
        \/ RemoveBody(t)
        \/ Count(t)
        \/ CountBody(t)

SpecPool == Init /\ [][NextPool]_vars

\* --------------------------------------------- imap.Connection, smtp.Connection

\* Uids a fetch_messages request names, recipients an smtp send names.
MaxItems == 2

ErrNotConnected == "client not connected"
ErrConnect == "failed to connect"
ErrLogin == "login failed"
ErrServer == "server error"

ImapDataActions ==
    {"select_folder", "search_uids", "fetch_messages", "set_flags",
     "copy_message", "expunge", "noop"}

SmtpDataActions == {"send", "noop"}

DataActions(m) == IF m = "imap" THEN ImapDataActions ELSE SmtpDataActions

\* The cases of Handler.Handle's switch.
Actions(m) == {"connect", "close"} \cup DataActions(m)

\* The methods that take c.mu.Lock(); the others take c.mu.RLock().
ExclusiveOps == {"set_flags", "copy_message", "expunge"}

\* The actions whose request carries a list (uids, to).
ListActions == {"fetch_messages", "send"}

\* The first server command of a data operation.
FirstCmd(a) ==
    CASE a = "select_folder" -> "SELECT"
      [] a = "search_uids" -> "UID SEARCH"
      [] a = "fetch_messages" -> "UID FETCH"
      [] a = "set_flags" -> "UID STORE"
      [] a = "copy_message" -> "UID COPY"
      [] a = "expunge" -> "EXPUNGE"
      [] a = "send" -> "MAIL"
      [] OTHER -> "NOOP"

\* The command that follows command c of an operation once c has succeeded,
\* with k recipients still to declare; "none" when the operation is complete.
\* SendMessage: Mail, Rcpt per recipient, Data, Write, Close, and on return
\* the deferred w.Close().
NextCmd(c, k) ==
    CASE c = "MAIL" -> IF k > 0 THEN "RCPT" ELSE "DATA"
      [] c = "RCPT" -> IF k > 1 THEN "RCPT" ELSE "DATA"
      [] c = "DATA" -> "WRITE"
      [] c = "WRITE" -> "CLOSE"
      [] c = "CLOSE" -> "DEFER CLOSE"
      [] OTHER -> "none"

\* What a method still runs when its command c has failed: SendMessage has
\* `defer w.Close()` pending once client.Data() has returned the writer.
AfterFailure(c) == IF c \in {"WRITE", "CLOSE"} THEN "DEFER CLOSE" ELSE "none"

\* The errors a call of the client returns: the server's rejection of the
\* command, or the failure of the transport.
ErrRejected == "command rejected"
ErrTransport == "connection closed"
Causes == {ErrRejected, ErrTransport}

\* The i-th address of a send request's recipient list.
Recipient(i) == "rcpt" \o ToString(i)

\* The error an operation returns when its command c fails with cause e;
\* i is the recipient being declared.
CmdError(c, e, i) ==
    CASE c = "UID SEARCH" -> "search failed: " \o e
      [] c = "UID FETCH" -> "fetch failed: " \o e
      [] c = "MAIL" -> "MAIL FROM failed: " \o e
      [] c = "RCPT" -> "RCPT TO failed for " \o Recipient(i) \o ": " \o e
      [] c = "DATA" -> "DATA command failed: " \o e
      [] c = "WRITE" -> "failed to write message: " \o e
      [] c = "CLOSE" -> "failed to close DATA: " \o e
      [] OTHER -> e

\* Width of a message identifier: uint32 in the code, fewer bits in the model.
UidBits == 4
MaxUid == 2 ^ UidBits - 1

\* The watermarks a search_uids request carries.
Watermarks == {0, 1, MaxUid - 1, MaxUid}

\* SearchUIDs: the lower bound of the range given to AddRange(_, 0), in the
\* identifier's unsigned arithmetic.
SearchFrom(highestUID) ==
    IF highestUID > 0 THEN (highestUID + 1) % (2 ^ UidBits) ELSE 1

\* The folder a select_folder request names (its numeric parameter picks it).
Folder(n) == IF n = 0 THEN "INBOX" ELSE "Archive"

\* Mutant: the mailbox is opened with EXAMINE.
SelectReadOnlyTrue == TRUE

\* SelectFolder: the readOnly argument of client.Select(folder, false).
SelectReadOnly == FALSE

\* client.Select(name, readOnly): the mailbox the server makes the session's
\* active one (SELECT opens it read-write, EXAMINE read-only).
Select(name, readOnly) == [name |-> name, readOnly |-> readOnly]

\* Mutant: the empty list is not special-cased.
EmptyFetchNever(a, n) == FALSE

\* FetchMessages: len(uids) == 0
EmptyFetch(a, n) == a = "fetch_messages" /\ n = 0

\* What the server can deliver to a fetch of uids 1..n: messages <<uid, body
\* readable>>.
Deliveries(n) == (1 .. n) \X BOOLEAN

\* Mutant: messages whose body cannot be read are not skipped.
FetchResultAll(ms) == {m[1] : m \in ms}

\* FetchMessages: the keys of the result, one per uid delivered with a body
\* that could be read.
FetchResult(ms) == {m[1] : m \in {d \in ms : d[2]}}

\* Mutant: the methods do not test the closed flag or the client.
NotConnectedNever(c) == FALSE

\* The guard of every method: c.closed || c.client == nil.
NotConnected(c) == closed[c] \/ client[c] = 0

\* The Connection object the next successful Connect allocates.
Fresh == CHOOSE c \in Conns : kind[c] = "none" /\ \A d \in Conns : kind[d] = "none" => c <= d

taskLocals == <<lclient, cmd, left>>

\* Arguments, results and history of the calls in progress.
opVars == <<sess, msgs, result, lower, logouts>>

connVars == <<kind, closed, client, connMu>>

histVars == <<issued, removed, mark>>

\* A data method: c.mu.RLock() (c.mu.Lock() in SetFlags, CopyMessage, Expunge).
ConnLock(t) ==
    LET c == cur[t] IN
    /\ pc[t] = "ConnLock"
    /\ Running
    /\ IF req[t].action \in ExclusiveOps
       THEN /\ CanLock(connMu[c])
            /\ connMu' = [connMu EXCEPT ![c] = Lock(@, t)]
       ELSE /\ CanRLock(connMu[c])
            /\ connMu' = [connMu EXCEPT ![c] = RLock(@, t)]
    /\ pc' = [pc EXCEPT ![t] = "ConnCheck"]
    /\ UNCHANGED <<poolVars, opVars, req, cur, ret, kind, closed, client, crashed,
                   taskLocals, histVars, serveVars, opened, fetch>>

\* Mutant: a method that finds the connection closed re-establishes it and
\* goes on, instead of failing.
ConnCheckReconnects(t) ==
    LET c == cur[t]
        a == req[t].action
    IN
    /\ pc[t] = "ConnCheck"
    /\ Running
    /\ connMu' = [connMu EXCEPT
                    ![c] = IF a \in ExclusiveOps THEN Unlock(@, t) ELSE RUnlock(@, t)]
    /\ closed' = [closed EXCEPT ![c] = FALSE]
    /\ client' = [client EXCEPT ![c] = c]
    /\ lclient' = [lclient EXCEPT ![t] = c]
    /\ cmd' = [cmd EXCEPT ![t] = FirstCmd(a)]
    /\ left' = [left EXCEPT ![t] = IF a = "send" THEN req[t].n ELSE 0]
    /\ pc' = [pc EXCEPT ![t] = "Command"]
    /\ UNCHANGED <<poolVars, opVars, req, cur, ret, kind, crashed, histVars, serveVars, opened, fetch>>

\* A data method: the closed/nil test, the local copy of c.client, the unlock,
\* and what the method computes before its first client call. FetchMessages
\* with no uids returns its empty map here.
ConnCheck(t) ==
    LET c == cur[t]
        a == req[t].action
    IN
    /\ pc[t] = "ConnCheck"
    /\ Running
    /\ connMu' = [connMu EXCEPT
                    ![c] = IF a \in ExclusiveOps THEN Unlock(@, t) ELSE RUnlock(@, t)]
    /\ IF NotConnected(c)
       THEN /\ ret' = [ret EXCEPT ![t] = [val |-> 0, err |-> ErrNotConnected]]
            /\ pc' = [pc EXCEPT ![t] = "Respond"]
            /\ UNCHANGED <<taskLocals, result, lower>>
       ELSE /\ lclient' = [lclient EXCEPT ![t] = client[c]]
            /\ IF EmptyFetch(a, req[t].n)
               THEN /\ ret' = [ret EXCEPT ![t] = NoRet]
                    /\ result' = [result EXCEPT ![t] = {}]
                    /\ pc' = [pc EXCEPT ![t] = "Respond"]
                    /\ UNCHANGED <<cmd, left, lower>>
               ELSE /\ cmd' = [cmd EXCEPT ![t] = FirstCmd(a)]
                    /\ left' = [left EXCEPT ![t] = IF a = "send" THEN req[t].n ELSE 0]
                    /\ lower' = [lower EXCEPT
                                   ![t] = IF a = "search_uids"
                                          THEN SearchFrom(req[t].n) ELSE 0]
                    /\ pc' = [pc EXCEPT ![t] = "Command"]
                    /\ UNCHANGED <<ret, result>>
    /\ UNCHANGED <<poolVars, sess, msgs, logouts, req, cur, kind, closed, client,
                   crashed, histVars, serveVars, opened, fetch>>

\* A data method calls the client (client.Select, client.UidStore, client.Mail,
\* ...): the command goes to the server; a nil client is a nil dereference.
Command(t) ==
    /\ pc[t] = "Command"
    /\ Running
    /\ IF lclient[t] = 0
       THEN /\ crashed' = TRUE
            /\ UNCHANGED pc
       ELSE /\ pc' = [pc EXCEPT ![t] = "CommandWait"]
            /\ UNCHANGED crashed
    /\ UNCHANGED <<poolVars, opVars, req, cur, ret, connVars, taskLocals, histVars, serveVars, opened, fetch>>

\* The client call returns. An error ends the method (SendMessage still runs
\* its deferred w.Close() once it holds the writer); success goes on to the
\* method's next command or ends it. The result of the deferred w.Close() is
\* discarded. A fetch has collected the messages the server delivered.
CommandReturn(t) ==
    LET c == cmd[t]
        i == req[t].n - left[t] + 1
    IN
    /\ pc[t] = "CommandWait"
    /\ Running
    /\ \E e \in {ErrNil} \cup Causes :
       \E ms \in SUBSET Deliveries(IF c = "UID FETCH" THEN req[t].n ELSE 0) :
         LET next == IF e = ErrNil THEN NextCmd(c, left[t]) ELSE AfterFailure(c) IN
         /\ msgs' = [msgs EXCEPT ![t] = ms]
         /\ opened' = [opened EXCEPT
                         ![t] = IF c = "SELECT" /\ e = ErrNil
                                THEN Select(Folder(req[t].n), SelectReadOnly)
                                ELSE @]
         /\ result' = [result EXCEPT
                         ![t] = IF e = ErrNil THEN FetchResult(ms) ELSE {}]
         /\ ret' = [ret EXCEPT
                      ![t] = IF c = "DEFER CLOSE" THEN @
                             ELSE IF e = ErrNil THEN NoRet
                             ELSE [val |-> 0, err |-> CmdError(c, e, i)]]
         /\ cmd' = [cmd EXCEPT ![t] = next]
         /\ left' = [left EXCEPT
                       ![t] = IF e # ErrNil \/ next \in {"none", "DEFER CLOSE"} THEN 0
                              ELSE IF c = "RCPT" THEN @ - 1 ELSE @]
         /\ pc' = [pc EXCEPT ![t] = IF next = "none" THEN "Respond" ELSE "Command"]
    /\ UNCHANGED <<poolVars, sess, lower, logouts, req, cur, connVars, crashed,
                   lclient, histVars, serveVars, fetch>>

\* Connection.Close: c.mu.Lock()
Close(t) ==
    LET c == cur[t] IN
    /\ pc[t] = "Close"
    /\ Running
    /\ CanLock(connMu[c])
    /\ connMu' = [connMu EXCEPT ![c] = Lock(@, t)]
    /\ pc' = [pc EXCEPT ![t] = "CloseCheck"]
    /\ UNCHANGED <<poolVars, opVars, req, cur, ret, kind, closed, client, crashed,
                   taskLocals, histVars, serveVars, opened, fetch>>

\* Mutant: Close sends the logout without testing the closed flag.
CloseCheckAlwaysLogout(t) ==
    LET c == cur[t] IN
    /\ pc[t] = "CloseCheck"
    /\ Running
    /\ closed' = [closed EXCEPT ![c] = TRUE]
    /\ logouts' = [logouts EXCEPT ![c] = @ + 1]
    /\ cmd' = [cmd EXCEPT ![t] = "LOGOUT"]
    /\ pc' = [pc EXCEPT ![t] = "CloseLogout"]
    /\ UNCHANGED <<poolVars, sess, msgs, result, lower, req, cur, ret, kind,
                   client, connMu, crashed, lclient, left, histVars, serveVars, opened, fetch>>

\* Connection.Close: return nil when already closed; else set closed and send
\* Logout (imap) or Quit (smtp), still holding the lock.
CloseCheck(t) ==
    LET c == cur[t] IN
    /\ pc[t] = "CloseCheck"
    /\ Running
    /\ IF NotConnected(c)
       THEN /\ connMu' = [connMu EXCEPT ![c] = Unlock(@, t)]
            /\ ret' = [ret EXCEPT ![t] = NoRet]
            /\ pc' = [pc EXCEPT ![t] = "CloseDone"]
            /\ UNCHANGED <<closed, cmd, crashed, logouts>>
       ELSE /\ closed' = [closed EXCEPT ![c] = TRUE]
            /\ logouts' = [logouts EXCEPT ![c] = @ + 1]
            /\ cmd' = [cmd EXCEPT ![t] = "LOGOUT"]
            /\ pc' = [pc EXCEPT ![t] = "CloseLogout"]
            /\ crashed' = (client[c] = 0)
            /\ UNCHANGED <<connMu, ret>>
    /\ UNCHANGED <<poolVars, sess, msgs, result, lower, req, cur, kind, client,
                   lclient, left, histVars, serveVars, opened, fetch>>

\* Mutant: Close returns without Unlock.
CloseLogoutKeepsLock(t) ==
    LET c == cur[t] IN
    /\ pc[t] = "CloseLogout"
    /\ Running
    /\ \E ok \in BOOLEAN :
         ret' = [ret EXCEPT ![t] = [val |-> 0, err |-> IF ok THEN ErrNil ELSE ErrServer]]
    /\ client' = [client EXCEPT ![c] = 0]
    /\ cmd' = [cmd EXCEPT ![t] = "none"]
    /\ pc' = [pc EXCEPT ![t] = "CloseDone"]
    /\ UNCHANGED <<poolVars, opVars, req, cur, kind, closed, connMu, crashed, lclient,
                   left, histVars, serveVars, opened, fetch>>

\* Mutant: Close does not clear c.client.
CloseLogoutKeepsClient(t) ==
    LET c == cur[t] IN
    /\ pc[t] = "CloseLogout"
    /\ Running
    /\ \E ok \in BOOLEAN :
         ret' = [ret EXCEPT ![t] = [val |-> 0, err |-> IF ok THEN ErrNil ELSE ErrServer]]
    /\ connMu' = [connMu EXCEPT ![c] = Unlock(@, t)]
    /\ cmd' = [cmd EXCEPT ![t] = "none"]
    /\ pc' = [pc EXCEPT ![t] = "CloseDone"]
    /\ UNCHANGED <<poolVars, opVars, req, cur, kind, closed, client, crashed, lclient,
                   left, histVars, serveVars, opened, fetch>>

\* Connection.Close: Logout/Quit returns, c.client = nil, unlock, return err.
CloseLogout(t) ==
    LET c == cur[t] IN
    /\ pc[t] = "CloseLogout"
    /\ Running
    /\ \E ok \in BOOLEAN :
         ret' = [ret EXCEPT ![t] = [val |-> 0, err |-> IF ok THEN ErrNil ELSE ErrServer]]
    /\ client' = [client EXCEPT ![c] = 0]
    /\ connMu' = [connMu EXCEPT ![c] = Unlock(@, t)]
    /\ cmd' = [cmd EXCEPT ![t] = "none"]
    /\ pc' = [pc EXCEPT ![t] = "CloseDone"]
    /\ UNCHANGED <<poolVars, opVars, req, cur, kind, closed, crashed, lclient, left,
                   histVars, serveVars, opened, fetch>>

\* ------------------------------------------------ imap.Handler, smtp.Handler

\* Handle h of module m was issued and its connection is closed or removed:
\* some close action has got as far as setting the closed flag.
Dead(m, h) ==
    /\ h \in IssuedHandles(m)
    /\ h \in DOMAIN connections[m] => closed[connections[m][h]]

\* A close action on handle h of module m is being served.
Closing(m, h) ==
    \E u \in Tasks : /\ pc[u] # "idle"
                     /\ req[u].action = "close"
                     /\ req[u].module = m
                     /\ req[u].handle = h

\* The connect action that issued handle h of module m is still being served.
Connecting(m, h) ==
    \E u \in Tasks : /\ pc[u] \in {"AddDone", "Respond"}
                     /\ req[u].action = "connect"
                     /\ req[u].module = m
                     /\ ret[u].val = h

\* What a data action's handle is when its request is read: "dead" (closed or
\* removed), "answered" (dead, and the connect action that issued it and every
\* close action on it have been answered), else "none".
HandleState(m, a, h) ==
    IF a \in {"connect", "close"} \/ ~Dead(m, h) THEN "none"
    ELSE IF Closing(m, h) \/ Connecting(m, h) THEN "dead"
    ELSE "answered"

\* The numeric parameter of a request: len(uids) of fetch_messages, len(to) of
\* send, highest_uid of search_uids, the folder of select_folder.
Params(a) ==
    IF a \in ListActions THEN 0 .. MaxItems
    ELSE IF a = "search_uids" THEN Watermarks
    ELSE IF a = "select_folder" THEN {0, 1}
    ELSE {0}

\* handleConnection: scanner.Scan() has returned a line and ctx is not done;
\* the line is a well-formed request, and Handler.Handle dispatches it:
\* handleConnect calls Connect, every other handler first resolves the handle.
\* The callers send the actions acts of the modules mods on the handles up to
\* maxh.
ReadRequestFrom(t, mods, acts, maxh) ==
    /\ pc[t] = "idle"
    /\ Running
    /\ ~ctxDone
    /\ \E m \in mods : \E a \in Actions(m) \cap acts :
       \E h \in 0 .. maxh : \E n \in Params(a) :
         /\ (a = "connect") <=> h = 0
         /\ req' = [req EXCEPT ![t] = [module |-> m, action |-> a, handle |-> h, n |-> n]]
         /\ pc' = [pc EXCEPT ![t] = IF a = "connect" THEN "Connect" ELSE "Get"]
         /\ mark' = [mark EXCEPT ![t] = HandleState(m, a, h)]
    /\ form' = [form EXCEPT ![t] = "ok"]
    /\ unanswered' = [unanswered EXCEPT ![t] = @ + 1]
    /\ UNCHANGED <<poolVars, opVars, cur, ret, connVars, crashed, taskLocals, issued,
                   removed, opened, fetch, ctxDone, listenerOpen, exited>>

ReadRequest(t) ==
    ReadRequestFrom(t, Modules,
                    {"connect", "close"} \cup ImapDataActions \cup SmtpDataActions,
                    MaxConns)

\* The stages at which Connect can fail: imap DialTLS, Login; smtp Dial,
\* NewClient, StartTLS, Auth.
ConnectStages(m) ==
    IF m = "imap" THEN {"dial", "login"}
    ELSE {"dial", "client", "starttls", "auth"}

ErrClient == "failed to create SMTP client"
ErrStartTLS == "STARTTLS failed"
ErrAuth == "authentication failed"

\* The error Connect returns for a failure at a stage.
ConnectError(stage) ==
    CASE stage = "dial" -> ErrConnect
      [] stage = "login" -> ErrLogin
      [] stage = "client" -> ErrClient
      [] stage = "starttls" -> ErrStartTLS
      [] OTHER -> ErrAuth

\* Mutant: imap Connect returns the login error without c.Logout().
SessionAfterNoLogout(stage, quit) ==
    CASE stage = "dial" -> "none"
      [] stage = "login" -> "open"
      [] stage = "client" -> "closed"
      [] OTHER -> IF quit THEN "closed" ELSE "open"

\* The session a failed Connect leaves behind: "none" when the dial failed,
\* "closed" when it was terminated, "open" when its socket is still open
\* (a successful Connect returns it "authenticated").
\* imap: c.Logout() after a failed Login. smtp: a failed greeting is closed
\* by smtp.NewClient itself; after a failed StartTLS or Auth Connect calls
\* c.Quit() and drops its result, and Quit closes the socket only when the
\* QUIT exchange succeeded (quit).
SessionAfter(stage, quit) ==
    CASE stage = "dial" -> "none"
      [] stage = "login" -> "closed"
      [] stage = "client" -> "closed"
      [] OTHER -> IF quit THEN "closed" ELSE "open"

\* Connection objects allocated so far.
Allocated == {c \in Conns : kind[c] # "none"}

\* handleConnect: Connect(host, port, username, password) fails at a stage
\* or returns a new Connection holding the authenticated transport. A run
\* creates at most cap Connection objects.
HandleConnectUpTo(t, cap) ==
    LET m == req[t].module IN
    /\ pc[t] = "Connect"
    /\ Running
    /\ \/ /\ \E stage \in ConnectStages(m) : \E quit \in BOOLEAN :
               /\ ret' = [ret EXCEPT ![t] = [val |-> 0, err |-> ConnectError(stage)]]
               /\ sess' = [sess EXCEPT ![t] = SessionAfter(stage, quit)]
          /\ pc' = [pc EXCEPT ![t] = "Respond"]
          /\ UNCHANGED <<cur, connVars>>
       \/ /\ Cardinality(Allocated) < cap
          /\ kind' = [kind EXCEPT ![Fresh] = m]
          /\ closed' = [closed EXCEPT ![Fresh] = FALSE]
          /\ client' = [client EXCEPT ![Fresh] = Fresh]
          /\ cur' = [cur EXCEPT ![t] = Fresh]
          /\ sess' = [sess EXCEPT ![t] = "authenticated"]
          /\ pc' = [pc EXCEPT ![t] = "Add"]
          /\ UNCHANGED <<ret, connMu>>
    /\ UNCHANGED <<poolVars, msgs, result, lower, logouts, req, crashed, taskLocals,
                   histVars, serveVars, opened, fetch>>

HandleConnect(t) == HandleConnectUpTo(t, MaxConns)

\* handleConnect after h.pool.Add: the error or the handle becomes the response.
HandleConnectAdded(t) ==
    /\ pc[t] = "AddDone"
    /\ Running
    /\ req[t].action = "connect"
    /\ pc' = [pc EXCEPT ![t] = "Respond"]
    /\ UNCHANGED <<poolVars, opVars, req, cur, ret, connVars, crashed, taskLocals, histVars, serveVars, opened, fetch>>

ErrBase64 == "invalid base64 message: illegal base64 data"

\* Mutant: handleSend does not decode message_b64 before it sends.
HandleGotNoDecode(t) ==
    /\ pc[t] = "GetDone"
    /\ Running
    /\ req[t].action \in Actions(req[t].module)
    /\ IF ret[t].err # ErrNil
       THEN /\ pc' = [pc EXCEPT ![t] = "Respond"]
            /\ UNCHANGED crashed
       ELSE IF kind[cur[t]] # req[t].module
       THEN /\ crashed' = TRUE
            /\ UNCHANGED pc
       ELSE /\ pc' = [pc EXCEPT
                        ![t] = IF req[t].action = "close" THEN "Close" ELSE "ConnLock"]
            /\ UNCHANGED crashed
    /\ UNCHANGED <<poolVars, opVars, req, cur, ret, connVars, taskLocals, histVars, serveVars, opened, fetch>>

\* Every other handler after h.pool.Get: the error is the response; else
\* (handleSend) message_b64 is decoded and a decoding error is the response;
\* else the downcast connInterface.(*Connection) and the call of the method.
HandleGot(t) ==
    /\ pc[t] = "GetDone"
    /\ Running
    /\ req[t].action \in Actions(req[t].module)
    /\ IF ret[t].err # ErrNil
       THEN /\ pc' = [pc EXCEPT ![t] = "Respond"]
            /\ UNCHANGED <<crashed, ret>>
       ELSE IF form[t] = "bad base64"
       THEN /\ ret' = [ret EXCEPT ![t] = [val |-> 0, err |-> ErrBase64]]
            /\ pc' = [pc EXCEPT ![t] = "Respond"]
            /\ UNCHANGED crashed
       ELSE IF kind[cur[t]] # req[t].module
       THEN /\ crashed' = TRUE
            /\ UNCHANGED <<pc, ret>>
       ELSE /\ pc' = [pc EXCEPT
                        ![t] = IF req[t].action = "close" THEN "Close" ELSE "ConnLock"]
            /\ UNCHANGED <<crashed, ret>>
    /\ UNCHANGED <<poolVars, opVars, req, cur, connVars, taskLocals, histVars, serveVars, opened, fetch>>

\* handleClose after conn.Close(): an error is the response (the handle stays
\* in the pool); else h.pool.Remove(p.Handle).
HandleClosed(t) ==
    /\ pc[t] = "CloseDone"
    /\ Running
    /\ pc' = [pc EXCEPT ![t] = IF ret[t].err # ErrNil THEN "Respond" ELSE "Remove"]
    /\ UNCHANGED <<poolVars, opVars, req, cur, ret, connVars, crashed, taskLocals, histVars, serveVars, opened, fetch>>

\* handleClose after h.pool.Remove: SuccessResponse(nil).
HandleCloseRemoved(t) ==
    /\ pc[t] = "RemoveDone"
    /\ Running
    /\ req[t].action = "close"
    /\ pc' = [pc EXCEPT ![t] = "Respond"]
    /\ UNCHANGED <<poolVars, opVars, req, cur, ret, connVars, crashed, taskLocals, histVars, serveVars, opened, fetch>>

\* protocol.ErrorResponse(err) / protocol.SuccessResponse(data)
Response(r) ==
    IF r.err = ErrNil
    THEN [success |-> TRUE, error |-> ""]
    ELSE [success |-> FALSE, error |-> r.err]

\* SuccessResponse(nil): the handler has no data.
NoData == "nil"

\* The value a handler passes to SuccessResponse: a map with one key for
\* connect, search_uids and fetch_messages, nil for the others.
HandlerData(a) ==
    CASE a = "connect" -> "handle"
      [] a = "search_uids" -> "uids"
      [] a = "fetch_messages" -> "messages"
      [] OTHER -> NoData

\* The protocol.Response the handler of action a builds from the result r.
Envelope(a, r) ==
    IF r.err = ErrNil
    THEN [Success |-> TRUE, Data |-> HandlerData(a), Error |-> ""]
    ELSE [Success |-> FALSE, Data |-> NoData, Error |-> r.err]

\* Mutant: no field is omitempty.
EncodeEveryField(resp) == {"success", "data", "error"}

\* encoder.Encode(resp): the keys of the JSON object written; data and error
\* are omitempty (a nil Data and an empty Error are left out).
Encode(resp) ==
    {"success"}
      \cup (IF resp.Data # NoData THEN {"data"} ELSE {})
      \cup (IF resp.Error # "" THEN {"error"} ELSE {})

\* What handleConnection does once the handler has returned: encoder.Encode
\* writes the response (written) or fails; the task goes back to reading, or
\* returns when the write failed. After a line that was not JSON the result
\* of Encode is ignored and the task goes on reading either way.
Write(t, written) ==
    /\ pc[t] = "Respond"
    /\ Running
    /\ mark' = [mark EXCEPT ![t] = "none"]
    /\ pc' = [pc EXCEPT
                 ![t] = IF written \/ form[t] = "not json" THEN "idle"
                        ELSE "ReturnWrite"]
    /\ form' = [form EXCEPT ![t] = "ok"]
    /\ unanswered' = [unanswered EXCEPT ![t] = @ - 1]
    /\ opened' = [opened EXCEPT ![t] = NoMailbox]
    /\ req' = [req EXCEPT ![t] = NoReq]
    /\ cur' = [cur EXCEPT ![t] = NoConn]
    /\ ret' = [ret EXCEPT ![t] = NoRet]
    /\ lclient' = [lclient EXCEPT ![t] = 0]
    /\ cmd' = [cmd EXCEPT ![t] = "none"]
    /\ left' = [left EXCEPT ![t] = 0]
    /\ sess' = [sess EXCEPT ![t] = "none"]
    /\ msgs' = [msgs EXCEPT ![t] = {}]
    /\ result' = [result EXCEPT ![t] = {}]
    /\ lower' = [lower EXCEPT ![t] = 0]
    /\ UNCHANGED <<poolVars, logouts, connVars, crashed, issued, removed,
                   ctxDone, listenerOpen, exited, fetch>>

\* handleConnection writes the response and goes back to reading.
Respond(t) == Write(t, TRUE)

\* The process: every caller task runs the handlers until the process panics.
Next ==
    \E t \in Tasks :
        \/ ReadRequest(t)
        \/ HandleConnect(t)
        \/ HandleConnectAdded(t)
        \/ HandleGot(t)
        \/ HandleClosed(t)
        \/ HandleCloseRemoved(t)
        \/ Respond(t)
        \/ ConnLock(t)
        \/ ConnCheck(t)
        \/ Command(t)
        \/ CommandReturn(t)
        \/ Close(t)
        \/ CloseCheck(t)
        \/ CloseLogout(t)
        \/ Add(t)
        \/ AddCheck(t)
        \/ AddInsert(t)
        \/ Get(t)
        \/ GetBody(t)
        \/ Remove(t)
        \/ RemoveBody(t)

Spec == Init /\ [][Next]_vars

\* The callers only open, probe (noop) and close sessions of one module, as
\* many as fill its pool.
ReadConnectRequest(t) ==
    ReadRequestFrom(t, {PoolUnderTest}, {"connect", "close", "noop"}, MaxObjs)

HandleConnectFull(t) == HandleConnectUpTo(t, MaxObjs)

NextConnect ==
    \E t \in Tasks :
        \/ ReadConnectRequest(t)
        \/ HandleConnectFull(t)
        \/ ConnLock(t)
        \/ ConnCheck(t)
        \/ Command(t)
        \/ CommandReturn(t)
        \/ HandleConnectAdded(t)
        \/ HandleGot(t)
        \/ HandleClosed(t)
        \/ HandleCloseRemoved(t)
        \/ Respond(t)
        \/ Close(t)
        \/ CloseCheck(t)
        \/ CloseLogout(t)
        \/ Add(t)
        \/ AddCheck(t)
        \/ AddInsert(t)
        \/ Get(t)
        \/ GetBody(t)
        \/ Remove(t)
        \/ RemoveBody(t)

SpecConnect == Init /\ [][NextConnect]_vars

\* ------------------------------------------------ main, handleConnection

ErrSyntax == "invalid character"
ErrParams == "json: cannot unmarshal"

\* Module and action names no handler knows.
UnknownModules == {"pop3"}
UnknownActions == {"fetch"}

\* Every action name of the catalog.
AllActions == {"connect", "close"} \cup ImapDataActions \cup SmtpDataActions

\* Mutant: the error does not name the module.
UnknownModuleErrorAnonymous(m) == "unknown module"

\* handleConnection's default case: fmt.Errorf("unknown module: %s", req.Module)
UnknownModuleError(m) == "unknown module: " \o m

\* Handle's default case: fmt.Errorf("unknown action: %s", req.Action)
UnknownActionError(a) == "unknown action: " \o a

\* The positions of a task whose handleConnection has returned (its deferred
\* conn.Close() has closed the caller connection).
Returned == {"ReturnEOF", "ReturnCtx", "ReturnWrite", "ReturnTooLong"}

\* The largest token bufio.NewScanner(conn) buffers (bufio.MaxScanTokenSize,
\* 64 KiB), scaled down.
MaxScanTokenSize == 3

\* The lengths (bytes before the newline) of the lines callers send.
LineLengths == 1 .. MaxScanTokenSize + 1

\* bufio.Scanner: the buffer is full and holds no newline.
TooLong(len) == len >= MaxScanTokenSize

\* What the reading steps of handleConnection leave alone.
readFrame == <<poolVars, opVars, cur, connVars, crashed, taskLocals, issued,
               removed, opened, fetch, ctxDone, listenerOpen, exited>>

\* handleConnection: scanner.Scan() has returned a line and ctx is done: the
\* task returns without decoding or answering the line.
ReadCancelled(t) ==
    /\ pc[t] = "idle"
    /\ Running
    /\ ctxDone
    /\ pc' = [pc EXCEPT ![t] = "ReturnCtx"]
    /\ unanswered' = [unanswered EXCEPT ![t] = @ + 1]
    /\ UNCHANGED <<readFrame, req, ret, mark, form>>

\* Mutant: a line that is not JSON ends the task.
ReadMalformedReturns(t) ==
    /\ pc[t] = "idle"
    /\ Running
    /\ ~ctxDone
    /\ pc' = [pc EXCEPT ![t] = "ReturnEOF"]
    /\ unanswered' = [unanswered EXCEPT ![t] = @ + 1]
    /\ form' = [form EXCEPT ![t] = "not json"]
    /\ UNCHANGED <<readFrame, req, ret, mark>>

\* handleConnection: the line is not JSON; json.Unmarshal fails and the error
\* becomes the response.
ReadMalformed(t) ==
    /\ pc[t] = "idle"
    /\ Running
    /\ ~ctxDone
    /\ form' = [form EXCEPT ![t] = "not json"]
    /\ ret' = [ret EXCEPT ![t] = [val |-> 0, err |-> ErrSyntax]]
    /\ pc' = [pc EXCEPT ![t] = "Respond"]
    /\ unanswered' = [unanswered EXCEPT ![t] = @ + 1]
    /\ UNCHANGED <<readFrame, req, mark>>

\* handleConnection, Handler.Handle: the request names a module that is
\* neither "imap" nor "smtp", or an action its module's handler does not
\* have; the default case's error becomes the response.
ReadUnknown(t) ==
    /\ pc[t] = "idle"
    /\ Running
    /\ ~ctxDone
    /\ \E m \in Modules \cup UnknownModules : \E a \in AllActions \cup UnknownActions :
         /\ m \notin Modules \/ a \notin Actions(m)
         /\ req' = [req EXCEPT ![t] = [module |-> m, action |-> a, handle |-> 0, n |-> 0]]
         /\ ret' = [ret EXCEPT
                      ![t] = [val |-> 0,
                              err |-> IF m \notin Modules THEN UnknownModuleError(m)
                                      ELSE UnknownActionError(a)]]
    /\ form' = [form EXCEPT ![t] = "ok"]
    /\ pc' = [pc EXCEPT ![t] = "Respond"]
    /\ unanswered' = [unanswered EXCEPT ![t] = @ + 1]
    /\ UNCHANGED <<readFrame, mark>>

\* Every handler: json.Unmarshal(params, &p) fails and the error is the
\* response.
ReadUndecodable(t) ==
    /\ pc[t] = "idle"
    /\ Running
    /\ ~ctxDone
    /\ \E m \in Modules : \E a \in Actions(m) :
         req' = [req EXCEPT ![t] = [module |-> m, action |-> a, handle |-> 0, n |-> 0]]
    /\ form' = [form EXCEPT ![t] = "bad params"]
    /\ ret' = [ret EXCEPT ![t] = [val |-> 0, err |-> ErrParams]]
    /\ pc' = [pc EXCEPT ![t] = "Respond"]
    /\ unanswered' = [unanswered EXCEPT ![t] = @ + 1]
    /\ UNCHANGED <<readFrame, mark>>

\* smtp handleSend: the params decode and message_b64 is not valid base64;
\* the handler first resolves the handle.
ReadBadBase64(t) ==
    /\ pc[t] = "idle"
    /\ Running
    /\ ~ctxDone
    /\ \E h \in 1 .. MaxConns : \E n \in Params("send") :
         /\ req' = [req EXCEPT
                      ![t] = [module |-> "smtp", action |-> "send", handle |-> h, n |-> n]]
         /\ mark' = [mark EXCEPT ![t] = HandleState("smtp", "send", h)]
    /\ form' = [form EXCEPT ![t] = "bad base64"]
    /\ pc' = [pc EXCEPT ![t] = "Get"]
    /\ unanswered' = [unanswered EXCEPT ![t] = @ + 1]
    /\ UNCHANGED <<readFrame, ret>>

\* handleConnection: scanner.Scan() returns false (the caller closed its
\* stream); the task returns.
EndOfInput(t) ==
    /\ pc[t] = "idle"
    /\ Running
    /\ pc' = [pc EXCEPT ![t] = "ReturnEOF"]
    /\ UNCHANGED <<readFrame, req, ret, mark, form, unanswered>>

\* handleConnection: encoder.Encode(resp) fails.
RespondFails(t) == Write(t, FALSE)

\* handleConnection: the caller's line does not fit the scanner's buffer;
\* scanner.Scan() returns false (bufio.ErrTooLong, logged after the loop) and
\* the task returns. The lines of the other reading steps fit the buffer.
ReadOversize(t) ==
    /\ pc[t] = "idle"
    /\ Running
    /\ \E len \in LineLengths : TooLong(len)
    /\ pc' = [pc EXCEPT ![t] = "ReturnTooLong"]
    /\ UNCHANGED <<readFrame, req, ret, mark, form, unanswered>>

\* main's accept loop: listener.Accept() returns a new caller connection and
\* main starts handleConnection for it (in the place of a task that is over).
Accept(t) ==
    /\ pc[t] \in Returned
    /\ Running
    /\ listenerOpen
    /\ pc' = [pc EXCEPT ![t] = "idle"]
    /\ unanswered' = [unanswered EXCEPT ![t] = 0]
    /\ UNCHANGED <<readFrame, req, ret, mark, form>>

\* main's signal goroutine: a signal has arrived, cancel().
Signal ==
    /\ Running
    /\ ~ctxDone
    /\ ctxDone' = TRUE
    /\ UNCHANGED <<poolVars, pc, req, cur, ret, histVars, connVars, crashed,
                   taskLocals, opVars, form, unanswered, opened, fetch, listenerOpen, exited>>

\* Mutant: the signal goroutine closes the listener without cancel() first.
CloseListenerBeforeCancel ==
    /\ Running
    /\ listenerOpen
    /\ listenerOpen' = FALSE
    /\ UNCHANGED <<poolVars, pc, req, cur, ret, histVars, connVars, crashed,
                   taskLocals, opVars, form, unanswered, opened, fetch, ctxDone, exited>>

\* main's signal goroutine after cancel(): listener.Close().
CloseListener ==
    /\ Running
    /\ ctxDone
    /\ listenerOpen
    /\ listenerOpen' = FALSE
    /\ UNCHANGED <<poolVars, pc, req, cur, ret, histVars, connVars, crashed,
                   taskLocals, opVars, form, unanswered, opened, fetch, ctxDone, exited>>

\* main's accept loop: Accept fails on the closed listener, ctx is done, main
\* returns and the process ends with every goroutine still in it.
MainReturn ==
    /\ Running
    /\ ctxDone
    /\ ~listenerOpen
    /\ exited' = TRUE
    /\ UNCHANGED <<poolVars, pc, req, cur, ret, histVars, connVars, crashed,
                   taskLocals, opVars, form, unanswered, opened, fetch, ctxDone, listenerOpen>>

\* The requests the callers of the served process send.
ServeActions == {"connect", "close", "noop", "send"}

ReadServeRequest(t) == ReadRequestFrom(t, Modules, ServeActions, MaxConns)

\* The served process: callers send well-formed and ill-formed lines and
\* close their streams, and a signal shuts the process down.
NextServe ==
    \E t \in Tasks :
        \/ ReadServeRequest(t)
        \/ ReadCancelled(t)
        \/ ReadMalformed(t)
        \/ ReadUnknown(t)
        \/ ReadUndecodable(t)
        \/ ReadBadBase64(t)
        \/ ReadOversize(t)
        \/ EndOfInput(t)
        \/ Accept(t)
        \/ Respond(t)
        \/ RespondFails(t)
        \/ Signal
        \/ CloseListener
        \/ MainReturn
        \/ HandleConnect(t)
        \/ HandleConnectAdded(t)
        \/ HandleGot(t)
        \/ HandleClosed(t)
        \/ HandleCloseRemoved(t)
        \/ ConnLock(t)
        \/ ConnCheck(t)
        \/ Command(t)
        \/ CommandReturn(t)
        \/ Close(t)
        \/ CloseCheck(t)
        \/ CloseLogout(t)
        \/ Add(t)
        \/ AddCheck(t)
        \/ AddInsert(t)
        \/ Get(t)
        \/ GetBody(t)
        \/ Remove(t)
        \/ RemoveBody(t)

SpecServe == Init /\ [][NextServe]_vars

\* The served process with its signal goroutine and main scheduled: once the
\* signal has arrived, the goroutine that closes the listener and main, woken
\* by the accept error, do run.
SpecServeFair ==
    SpecServe /\ WF_vars(CloseListener) /\ WF_vars(MainReturn)

\* ------------------------------- the Connection's methods called directly

\* The exported methods of a Connection that do not go to the server, that
\* the handlers also call, or that no handler calls (FetchMessage).
Methods(m) ==
    IF m = "smtp" THEN {"close", "noop", "GetClient", "IsClosed"}
    ELSE {"close", "noop", "GetClient", "FetchMessage"}

\* Connect has returned a new Connection to its caller.
ApiConnect(t) ==
    /\ pc[t] = "idle"
    /\ Running
    /\ Cardinality(Allocated) < MaxObjs
    /\ \E m \in Modules : kind' = [kind EXCEPT ![Fresh] = m]
    /\ closed' = [closed EXCEPT ![Fresh] = FALSE]
    /\ client' = [client EXCEPT ![Fresh] = Fresh]
    /\ UNCHANGED <<poolVars, pc, req, cur, ret, connMu, crashed, taskLocals, opVars,
                   histVars, serveVars, opened, fetch>>

\* A goroutine calls a method of a Connection it has a pointer to.
ApiCall(t) ==
    /\ pc[t] = "idle"
    /\ Running
    /\ \E c \in Allocated : \E a \in Methods(kind[c]) :
         /\ cur' = [cur EXCEPT ![t] = c]
         /\ req' = [req EXCEPT
                      ![t] = [module |-> kind[c], action |-> a, handle |-> 0, n |-> 0]]
         /\ pc' = [pc EXCEPT
                     ![t] = CASE a = "close" -> "Close"
                              [] a = "noop" -> "ConnLock"
                              [] OTHER -> a]
    /\ UNCHANGED <<poolVars, ret, connVars, crashed, taskLocals, opVars, histVars,
                   serveVars, opened, fetch>>

\* What an unsynchronised read of c.client can return: the field's value, or
\* nil when the read races with Close, which holds the lock and is about to
\* store nil.
RacyClient(c) ==
    {client[c]} \cup {0 : u \in {v \in Tasks : pc[v] = "CloseLogout" /\ cur[v] = c}}

\* GetClient: return c.client, with no lock taken.
GetClient(t) ==
    /\ pc[t] = "GetClient"
    /\ Running
    /\ \E v \in RacyClient(cur[t]) : ret' = [ret EXCEPT ![t] = [val |-> v, err |-> ErrNil]]
    /\ pc' = [pc EXCEPT ![t] = "ApiDone"]
    /\ UNCHANGED <<poolVars, req, cur, connVars, crashed, taskLocals, opVars, histVars,
                   serveVars, opened, fetch>>

\* smtp IsClosed: c.mu.RLock()
IsClosed(t) ==
    LET c == cur[t] IN
    /\ pc[t] = "IsClosed"
    /\ Running
    /\ CanRLock(connMu[c])
    /\ connMu' = [connMu EXCEPT ![c] = RLock(@, t)]
    /\ pc' = [pc EXCEPT ![t] = "IsClosedRead"]
    /\ UNCHANGED <<poolVars, req, cur, ret, kind, closed, client, crashed, taskLocals,
                   opVars, histVars, serveVars, opened, fetch>>

\* smtp IsClosed: return c.closed, and the deferred RUnlock.
IsClosedRead(t) ==
    LET c == cur[t] IN
    /\ pc[t] = "IsClosedRead"
    /\ Running
    /\ ret' = [ret EXCEPT ![t] = [val |-> IF closed[c] THEN 1 ELSE 0, err |-> ErrNil]]
    /\ connMu' = [connMu EXCEPT ![c] = RUnlock(@, t)]
    /\ pc' = [pc EXCEPT ![t] = "ApiDone"]
    /\ UNCHANGED <<poolVars, req, cur, kind, closed, client, crashed, taskLocals,
                   opVars, histVars, serveVars, opened, fetch>>

\* The most messages the server delivers to one fetch command.
MaxDelivered == 3

\* make(chan *imap.Message, 1): the buffer of the messages channel.
MessagesCap == 1

ErrNotFound == "message not found"
ErrNoBody == "no message body"
ErrReadBody == "failed to read body"

\* What FetchMessage returns once it has its message and the fetch succeeded:
\* the body, or the error of a message with no body section or of a failed
\* read.
BodyResults == {ErrNil, ErrNoBody, ErrReadBody}

\* What the Connection methods leave alone while FetchMessage runs.
fetchFrame ==
    <<poolVars, req, cur, kind, closed, client, crashed, cmd, left, opVars,
      histVars, serveVars, opened>>

\* FetchMessage: c.mu.RLock()
FetchMessage(t) ==
    LET c == cur[t] IN
    /\ pc[t] = "FetchMessage"
    /\ Running
    /\ CanRLock(connMu[c])
    /\ connMu' = [connMu EXCEPT ![c] = RLock(@, t)]
    /\ pc' = [pc EXCEPT ![t] = "FetchCheck"]
    /\ UNCHANGED <<fetchFrame, ret, lclient, fetch>>

\* FetchMessage: the closed/nil test, the local copy of c.client, the unlock,
\* the two channels and the start of the helper goroutine that runs
\* client.UidFetch. The server will deliver some number of messages.
FetchCheck(t) ==
    LET c == cur[t] IN
    /\ pc[t] = "FetchCheck"
    /\ Running
    /\ connMu' = [connMu EXCEPT ![c] = RUnlock(@, t)]
    /\ IF NotConnected(c)
       THEN /\ ret' = [ret EXCEPT ![t] = [val |-> 0, err |-> ErrNotConnected]]
            /\ pc' = [pc EXCEPT ![t] = "ApiDone"]
            /\ UNCHANGED <<lclient, fetch>>
       ELSE /\ lclient' = [lclient EXCEPT ![t] = client[c]]
            /\ \E n \in 0 .. MaxDelivered :
                 fetch' = [fetch EXCEPT
                             ![t] = [NoFetch EXCEPT !.open = TRUE,
                                                    !.helper = "UidFetch",
                                                    !.pending = n]]
            /\ pc' = [pc EXCEPT ![t] = "FetchRecv"]
            /\ UNCHANGED ret
    /\ UNCHANGED fetchFrame

\* The helper goroutine, inside client.UidFetch: the next message of the
\* server's answer is sent on the messages channel; the send waits while the
\* channel's buffer is full.
UidFetchDeliver(t) ==
    LET f == fetch[t] IN
    /\ f.helper = "UidFetch"
    /\ Running
    /\ f.pending > 0
    /\ Len(f.messages) < MessagesCap
    /\ fetch' = [fetch EXCEPT
                   ![t] = [f EXCEPT !.messages = Append(@, f.sent + 1),
                                    !.sent = @ + 1,
                                    !.pending = @ - 1]]
    /\ UNCHANGED <<fetchFrame, pc, ret, lclient, connMu>>

\* The helper goroutine: client.UidFetch returns once every message is handed
\* over. It closes the messages channel (its deferred close) and the helper
\* puts the command's error on the done channel, whose buffer is free.
UidFetchReturn(t) ==
    LET f == fetch[t] IN
    /\ f.helper = "UidFetch"
    /\ Running
    /\ f.pending = 0
    /\ \E e \in {ErrNil} \cup Causes :
         fetch' = [fetch EXCEPT
                     ![t] = [f EXCEPT !.open = FALSE, !.done = e, !.status = e,
                                      !.helper = "returned"]]
    /\ UNCHANGED <<fetchFrame, pc, ret, lclient, connMu>>

\* FetchMessage: msg := <-messages. A message in the buffer is taken; a closed
\* and empty channel gives nil, and FetchMessage returns "message not found".
FetchRecv(t) ==
    LET f == fetch[t] IN
    /\ pc[t] = "FetchRecv"
    /\ Running
    /\ \/ /\ f.messages # <<>>
          /\ fetch' = [fetch EXCEPT
                         ![t] = [f EXCEPT !.msg = Head(f.messages),
                                          !.messages = Tail(@)]]
          /\ pc' = [pc EXCEPT ![t] = "FetchWaitDone"]
          /\ UNCHANGED ret
       \/ /\ f.messages = <<>>
          /\ ~f.open
          /\ ret' = [ret EXCEPT ![t] = [val |-> 0, err |-> ErrNotFound]]
          /\ pc' = [pc EXCEPT ![t] = "ApiDone"]
          /\ UNCHANGED fetch
    /\ UNCHANGED <<fetchFrame, lclient, connMu>>

\* FetchMessage: err := <-done, then the body of the message it received.
FetchDone(t) ==
    LET f == fetch[t] IN
    /\ pc[t] = "FetchWaitDone"
    /\ Running
    /\ f.done # "none"
    /\ fetch' = [fetch EXCEPT ![t] = [f EXCEPT !.done = "none"]]
    /\ IF f.done # ErrNil
       THEN ret' = [ret EXCEPT
                      ![t] = [val |-> 0, err |-> CmdError("UID FETCH", f.done, 0)]]
       ELSE \E b \in BodyResults :
              ret' = [ret EXCEPT
                        ![t] = [val |-> IF b = ErrNil THEN f.msg ELSE 0, err |-> b]]
    /\ pc' = [pc EXCEPT ![t] = "ApiDone"]
    /\ UNCHANGED <<fetchFrame, lclient, connMu>>

\* The method has returned to its caller.
ApiReturn(t) ==
    /\ pc[t] \in {"ApiDone", "CloseDone", "Respond"}
    /\ Running
    /\ pc' = [pc EXCEPT ![t] = "idle"]
    /\ req' = [req EXCEPT ![t] = NoReq]
    /\ cur' = [cur EXCEPT ![t] = NoConn]
    /\ ret' = [ret EXCEPT ![t] = NoRet]
    /\ lclient' = [lclient EXCEPT ![t] = 0]
    /\ cmd' = [cmd EXCEPT ![t] = "none"]
    /\ fetch' = [fetch EXCEPT ![t] = NoFetch]
    /\ UNCHANGED <<poolVars, connVars, crashed, left, opVars, histVars, serveVars,
                   opened>>

\* Goroutines holding pointers to Connections call their methods.
NextApi ==
    \E t \in Tasks :
        \/ ApiConnect(t)
        \/ ApiCall(t)
        \/ ApiReturn(t)
        \/ GetClient(t)
        \/ IsClosed(t)
        \/ IsClosedRead(t)
        \/ FetchMessage(t)
        \/ FetchCheck(t)
        \/ UidFetchDeliver(t)
        \/ UidFetchReturn(t)
        \/ FetchRecv(t)
        \/ FetchDone(t)
        \/ ConnLock(t)
        \/ ConnCheck(t)
        \/ Command(t)
        \/ CommandReturn(t)
        \/ Close(t)
        \/ CloseCheck(t)
        \/ CloseLogout(t)

SpecApi == Init /\ [][NextApi]_vars

\* ------------------------------------------------- claims about the pool

\* Handles pool m has issued and Remove has not deleted since.
Live(m) == IssuedHandles(m) \ removed[m]

\* The connection passed to the Add that returned handle h.
AddedConn(m, h) ==
    issued[m][CHOOSE i \in DOMAIN issued[m] : issued[m][i].handle = h].conn

\* C1: every successful Add returns a handle strictly greater than every
\* handle the pool returned before, and a Get of a handle that was issued and
\* not removed succeeds with exactly the connection passed to that Add.
C1_IncreasingHandlesAndGet ==
    [][\A t \in Tasks :
         LET m == req[t].module IN
         /\ (pc[t] = "AddInsert" /\ pc'[t] = "AddDone")
              => /\ ret'[t].err = ErrNil
                 /\ \A h \in IssuedHandles(m) : ret'[t].val > h
         /\ (pc[t] = "GetBody" /\ pc'[t] = "GetDone"
               /\ req[t].handle \in Live(m))
              => /\ ret'[t].err = ErrNil
                 /\ cur'[t] = AddedConn(m, req[t].handle)
      ]_vars

\* A Get has returned the second connection after the first handle was removed.
C1_Witness ==
    \E t \in Tasks :
        /\ pc[t] = "GetDone"
        /\ req[t].handle = 2
        /\ ret[t].err = ErrNil
        /\ Len(issued[PoolUnderTest]) >= 2
        /\ cur[t] = issued[PoolUnderTest][2].conn
        /\ cur[t] # issued[PoolUnderTest][1].conn
        /\ 1 \in removed[PoolUnderTest]

\* C2: under every interleaving of Add, Get, Remove and Count the number of
\* resident entries never exceeds the limit.
C2_ResidentAtMostLimit == \A m \in Modules : Resident(m) <= PoolLimit

\* The pool is full while one task is inside Add and another holds a handle.
C2_Witness ==
    /\ Resident(PoolUnderTest) = PoolLimit
    /\ \E t \in Tasks : pc[t] = "AddCheck"
    /\ \E t \in Tasks : pc[t] \in {"Get", "Remove", "Count"}

\* C3: an Add that finds the resident count at the limit returns the capacity
\* error in that step and leaves the map and the next handle number unchanged.
C3_AddAtLimitRejects ==
    [][\A t \in Tasks :
         LET m == req[t].module IN
         (pc[t] = "AddCheck" /\ pc'[t] # "AddCheck" /\ Resident(m) = PoolLimit)
           => /\ pc'[t] = "AddDone"
              /\ ret'[t] = [val |-> 0, err |-> ErrLimit]
              /\ connections' = connections
              /\ nextID' = nextID
              /\ Resident(m)' = PoolLimit
      ]_vars

\* An Add has been rejected and the pool is still full.
C3_Witness ==
    \E t \in Tasks :
        /\ pc[t] = "AddDone"
        /\ ret[t].err = ErrLimit
        /\ Resident(PoolUnderTest) = PoolLimit

\* C4: the n-th successful Add of a pool returns handle n, whatever Removes
\* and rejected Adds come in between.
C4_SequentialHandles ==
    \A m \in Modules : \A i \in DOMAIN issued[m] : issued[m][i].handle = i

\* One Add was rejected at the limit, a Remove made room, and a later Add got
\* the next number.
C4_Witness ==
    /\ \E t \in Tasks : pc[t] = "AddDone" /\ ret[t].err = ErrLimit
    /\ removed[PoolUnderTest] # {}
    /\ Len(issued[PoolUnderTest]) = PoolLimit + 1

\* C5: a Remove of a handle that is not resident (never added, or already
\* removed) changes nothing; after a Remove the handle is absent, and a Get of
\* a handle that is not resident fails with the not-found error.
C5_RemoveAbsentIsNoOp ==
    [][\A t \in Tasks :
         LET m == req[t].module
             h == req[t].handle
         IN
         /\ (pc[t] = "RemoveBody" /\ pc'[t] = "RemoveDone")
              => /\ ret'[t].err = ErrNil
                 /\ h \notin DOMAIN connections'[m]
                 /\ h \notin Live(m)'
                 /\ (h \notin Live(m))
                      => (connections' = connections /\ nextID' = nextID)
         /\ (pc[t] = "GetBody" /\ pc'[t] = "GetDone" /\ h \notin Live(m))
              => ret'[t].err = ErrInvalidHandle
      ]_vars

\* Two Removes of one issued handle have both returned: the later of the two
\* found the handle already removed.
C5_Witness ==
    \E t, u \in Tasks :
        /\ t # u
        /\ pc[t] = "RemoveDone"
        /\ pc[u] = "RemoveDone"
        /\ req[t].handle = req[u].handle
        /\ req[t].handle \in removed[PoolUnderTest]

\* ------------------------------------- claims about connections and handlers

\* The tasks whose server command is in flight on transport c.
InFlight(c) == {t \in Tasks : pc[t] = "CommandWait" /\ lclient[t] = c}

\* The operations C7 lists: those that start a round trip, noop aside.
RoundTripOps ==
    {"select_folder", "search_uids", "fetch_messages", "set_flags",
     "copy_message", "expunge"}

\* C6: two set_flags calls on one IMAP handle never have their store commands
\* in flight at the same time.
C6_SetFlagsNeverOverlap ==
    \A c \in Conns :
        Cardinality({t \in InFlight(c) : req[t].action = "set_flags"}) <= 1

\* C7: on one IMAP connection at most one server command of the round-trip
\* operations is in flight at any time.
C7_OneCommandInFlight ==
    \A c \in Conns : \A t, u \in InFlight(c) :
        (kind[c] = "imap" /\ req[t].action \in RoundTripOps
                          /\ req[u].action \in RoundTripOps)
          => t = u

\* A send that has issued a phase and has not completed or aborted.
MidSend(t) ==
    /\ req[t].action = "send"
    /\ \/ pc[t] = "CommandWait"
       \/ pc[t] = "Command" /\ cmd[t] # "MAIL"

\* C8: two sends on one SMTP connection are never both between their first
\* phase and their completion: their phases are not interleaved.
C8_SendsNotInterleaved ==
    \A t, u \in Tasks :
        (MidSend(t) /\ MidSend(u) /\ lclient[t] = lclient[u]) => t = u

\* C9 as stated: a data action on a handle that a connect action returned, read
\* after a close action on that handle was answered, gets the "not connected"
\* error, and the process does not panic.
C9_NotConnectedAfterClose ==
    /\ Running
    /\ \A t \in Tasks :
         (pc[t] = "Respond" /\ mark[t] = "answered")
           => Response(ret[t]) = [success |-> FALSE, error |-> ErrNotConnected]

\* C9 as amended: the process never panics; a close action that found its
\* handle in the pool, or removed, leaves it closed or removed; and a data
\* action read once the handle is closed or removed gets an error response,
\* "invalid connection handle" or "client not connected".
C9_ErrorAfterClose ==
    /\ Running
    /\ \A t \in Tasks :
         (pc[t] = "Respond" /\ req[t].action = "close"
            /\ (ret[t].err # ErrInvalidHandle
                  \/ req[t].handle \in removed[req[t].module]))
           => Dead(req[t].module, req[t].handle)
    /\ \A t \in Tasks :
         (pc[t] = "Respond" /\ mark[t] \in {"dead", "answered"})
           => /\ ~Response(ret[t]).success
              /\ Response(ret[t]).error \in {ErrInvalidHandle, ErrNotConnected}

\* Two data actions, both read after the close of their handle was answered:
\* one is answered "invalid connection handle", the other "client not connected".
C9_Witness ==
    \E t, u \in Tasks :
        /\ pc[t] = "Respond" /\ mark[t] = "answered"
        /\ Response(ret[t]).error = ErrInvalidHandle
        /\ pc[u] = "Respond" /\ mark[u] = "answered"
        /\ Response(ret[u]).error = ErrNotConnected

\* C10: the closed flag is never reset and the client of a closed connection
\* is only ever set to nil; a data method that makes its test on a closed
\* connection returns the not-connected error and issues no server command.
C10_ClosedIsTerminal ==
    [][/\ \A c \in Conns :
            closed[c] => /\ closed'[c]
                         /\ client'[c] \in {client[c], 0}
                         /\ kind'[c] = kind[c]
       /\ \A t \in Tasks :
            (pc[t] = "ConnCheck" /\ closed[cur[t]] /\ pc'[t] # "ConnCheck")
              => /\ pc'[t] = "Respond"
                 /\ ret'[t].err = ErrNotConnected
                 /\ cmd'[t] = "none"
      ]_vars

\* A data method has returned the not-connected error on a closed connection
\* whose Close has completed.
C10_Witness ==
    \E t \in Tasks :
        /\ pc[t] = "Respond"
        /\ req[t].action \in ImapDataActions \cup SmtpDataActions
        /\ ret[t].err = ErrNotConnected
        /\ closed[cur[t]]
        /\ client[cur[t]] = 0

\* C11: however many Close calls one connection gets, in sequence or at the
\* same time, the logout/quit command is sent at most once; the closed flag is
\* set only by the task that holds the connection's write lock; and a Close
\* that finds the flag set sends nothing and returns no error.
C11_CloseIdempotent ==
    [][/\ \A c \in Conns :
            /\ logouts'[c] <= 1
            /\ (closed'[c] /\ ~closed[c])
                 => (connMu[c].w # 0 /\ connMu[c].r = {} /\ logouts'[c] = 1)
       /\ \A t \in Tasks :
            (pc[t] = "CloseCheck" /\ pc'[t] # "CloseCheck" /\ closed[cur[t]])
              => /\ pc'[t] = "CloseDone"
                 /\ ret'[t].err = ErrNil
                 /\ logouts' = logouts
                 /\ cmd'[t] = "none"
      ]_vars

\* Two Close calls on one connection have both returned, the later one with
\* no error, and one logout was sent.
C11_Witness ==
    \E t, u \in Tasks :
        /\ t # u
        /\ cur[t] = cur[u]
        /\ cur[t] # NoConn
        /\ req[t].action = "close" /\ pc[t] = "Respond"
        /\ req[u].action = "close" /\ pc[u] = "CloseDone"
        /\ ret[u].err = ErrNil
        /\ logouts[cur[t]] = 1

\* C12: when a close action on a resident handle has its response ready,
\* whatever the logout returned, the handle is no longer resident and the
\* logout/quit command was sent to the transport.
C12_CloseDestroys ==
    \A t \in Tasks :
        (pc[t] = "Respond" /\ req[t].action = "close"
           /\ ret[t].err # ErrInvalidHandle)
          => /\ req[t].handle \notin DOMAIN connections[req[t].module]
             /\ logouts[cur[t]] = 1

\* The response of task t carries the failure of the transport under one of
\* the data methods' commands.
TransportErrorSurfaced(t) ==
    \E c \in {"SELECT", "UID SEARCH", "UID FETCH", "UID STORE", "UID COPY",
               "EXPUNGE", "NOOP", "MAIL", "RCPT", "DATA", "WRITE", "CLOSE"} :
    \E i \in 1 .. MaxItems :
        ret[t].err = CmdError(c, ErrTransport, i)

\* C13: when a data action on a resident handle has failed with a transport
\* error and its error response is ready, the handle is no longer resident.
C13_TransportErrorDestroys ==
    \A t \in Tasks :
        (pc[t] = "Respond" /\ req[t].action \in DataActions(req[t].module)
           /\ TransportErrorSurfaced(t))
          => req[t].handle \notin DOMAIN connections[req[t].module]

\* C14: when a connect action has an error response ready, whatever the
\* cause, the session its Connect built is not left open: no authenticated
\* transport exists outside the pool.
C14_FailedConnectTornDown ==
    \A t \in Tasks :
        (pc[t] = "Respond" /\ req[t].action = "connect" /\ ret[t].err # ErrNil)
          => sess[t] \notin {"open", "authenticated"}

\* C15: an imap connect that fails at Login has logged the transport out when
\* the error is returned, and has left the pool as it was: no handle issued,
\* no entry added, no Connection created.
C15_LoginFailureLogsOut ==
    [][\A t \in Tasks :
         (pc[t] = "Connect" /\ pc'[t] # "Connect" /\ req[t].module = "imap"
            /\ ret'[t].err = ErrLogin)
           => /\ sess'[t] = "closed"
              /\ pc'[t] = "Respond"
              /\ connections' = connections
              /\ nextID' = nextID
              /\ issued' = issued
              /\ Allocated' = Allocated
      ]_vars

\* An imap connect has failed at Login while the pool holds a connection.
C15_Witness ==
    \E t \in Tasks :
        /\ pc[t] = "Respond"
        /\ req[t] = [module |-> "imap", action |-> "connect", handle |-> 0, n |-> 0]
        /\ ret[t].err = ErrLogin
        /\ sess[t] = "closed"
        /\ Resident("imap") = 1

\* C16: an smtp connect that fails after the dial succeeded (greeting,
\* STARTTLS, authentication) has terminated the session when the error is
\* returned: no socket stays open.
C16_SmtpFailureTerminates ==
    \A t \in Tasks :
        (pc[t] = "Respond" /\ req[t].action = "connect" /\ req[t].module = "smtp"
           /\ ret[t].err \in {ErrClient, ErrStartTLS, ErrAuth})
          => sess[t] = "closed"

\* C17: when a phase of a send fails (MAIL, a RCPT, DATA, the write of the
\* message, the closing of the data), the send returns the error of that
\* phase, which for a recipient names that recipient, and issues nothing more
\* to the transport: no later recipient, no message data, no finalize.
C17_SendFailureStops ==
    [][\A t \in Tasks :
         (pc[t] = "CommandWait" /\ req[t].action = "send"
            /\ cmd[t] \in {"MAIL", "RCPT", "DATA", "WRITE", "CLOSE"}
            /\ ret'[t].err # ErrNil)
           => /\ \E e \in Causes :
                   ret'[t].err = CmdError(cmd[t], e, req[t].n - left[t] + 1)
              /\ cmd[t] # "CLOSE" => (pc'[t] = "Respond" /\ cmd'[t] = "none")
      ]_vars

\* C18: a fetch_messages with an empty identifier list on a connected session
\* returns success with an empty mapping straight from the connection test:
\* it never reaches a call of the client.
C18_EmptyFetchNoRoundTrip ==
    [][\A t \in Tasks :
         (pc[t] = "ConnCheck" /\ pc'[t] # "ConnCheck"
            /\ req[t].action = "fetch_messages" /\ req[t].n = 0
            /\ ~NotConnected(cur[t]))
           => /\ pc'[t] = "Respond"
              /\ Response(ret'[t]).success
              /\ result'[t] = {}
              /\ cmd'[t] = "none"
      ]_vars

\* An empty fetch has its success response ready on a session that is still
\* connected.
C18_Witness ==
    \E t \in Tasks :
        /\ pc[t] = "Respond"
        /\ req[t].action = "fetch_messages" /\ req[t].n = 0
        /\ ret[t].err = ErrNil
        /\ lclient[t] # 0
        /\ ~closed[cur[t]]

\* C19: a fetch_messages with a non-empty identifier list whose fetch command
\* succeeded returns a mapping with an entry for exactly the identifiers the
\* server delivered with a readable body (the others are left out without an
\* error); when the fetch command itself fails it returns an error and no
\* mapping.
C19_FetchPartialResults ==
    \A t \in Tasks :
        (pc[t] = "Respond" /\ req[t].action = "fetch_messages" /\ req[t].n > 0
           /\ lclient[t] # 0)
          => /\ ret[t].err = ErrNil
                  => result[t] = {u \in 1 .. req[t].n : <<u, TRUE>> \in msgs[t]}
             /\ ret[t].err # ErrNil
                  => /\ result[t] = {}
                     /\ \E e \in Causes : ret[t].err = "fetch failed: " \o e

\* A fetch of two identifiers has succeeded with one entry: the server
\* delivered the first with its body and the second without a readable body.
C19_Witness ==
    \E t \in Tasks :
        /\ pc[t] = "Respond"
        /\ req[t].action = "fetch_messages" /\ req[t].n = 2
        /\ ret[t].err = ErrNil
        /\ msgs[t] = {<<1, TRUE>>, <<2, FALSE>>}
        /\ result[t] = {1}

\* C20: the range search_uids asks the server for starts at 1 for watermark
\* 0 and at N + 1, above N, for every watermark N > 0 up to the largest
\* identifier.
C20_SearchAboveWatermark ==
    \A t \in Tasks :
        (pc[t] \in {"Command", "CommandWait"} /\ cmd[t] = "UID SEARCH")
          => LET N == req[t].n IN
             IF N = 0 THEN lower[t] = 1
             ELSE lower[t] = N + 1 /\ lower[t] > N

\* ------------------------------------------ claims about the request router

\* What a step that only reads or answers a request leaves alone: the pools
\* and every Connection.
RouterFrame ==
    /\ poolVars' = poolVars
    /\ connVars' = connVars
    /\ logouts' = logouts

\* C21: a request whose module is neither "imap" nor "smtp" gets the error
\* response "unknown module: <name>", a request with a known module and an
\* action its handler does not have gets an error response naming the action;
\* reading and answering such a request changes no pool and no connection, and
\* once the response is written the task is reading its caller connection
\* again (it returns only if the response could not be written).
C21_UnknownNamesRejected ==
    [][\A t \in Tasks :
         /\ (pc[t] = "idle" /\ pc'[t] = "Respond" /\ form'[t] = "ok"
               /\ req'[t].module \notin Modules)
              => /\ Response(ret'[t]) =
                       [success |-> FALSE,
                        error |-> "unknown module: " \o req'[t].module]
                 /\ RouterFrame
         /\ (pc[t] = "idle" /\ pc'[t] = "Respond" /\ form'[t] = "ok"
               /\ req'[t].module \in Modules
               /\ req'[t].action \notin Actions(req'[t].module))
              => /\ Response(ret'[t]) =
                       [success |-> FALSE,
                        error |-> "unknown action: " \o req'[t].action]
                 /\ RouterFrame
         /\ (pc[t] = "Respond" /\ pc'[t] # "Respond" /\ form[t] = "ok"
               /\ (req[t].module \notin Modules
                     \/ req[t].action \notin Actions(req[t].module)))
              => /\ pc'[t] \in {"idle", "ReturnWrite"}
                 /\ RouterFrame
      ]_vars

\* A request for module pop3 has its error response ready while a pool holds
\* a connection.
C21_Witness ==
    \E t \in Tasks :
        /\ pc[t] = "Respond"
        /\ req[t].module = "pop3"
        /\ ret[t].err = "unknown module: pop3"
        /\ \E m \in Modules : Resident(m) = 1

\* C22: a request line that is not JSON gets one error response, changes no
\* pool and no connection, and does not end the task: after the response the
\* task is reading its caller connection again.
C22_MalformedLineAnswered ==
    [][\A t \in Tasks :
         /\ (pc[t] = "idle" /\ pc'[t] # "idle" /\ form'[t] = "not json")
              => /\ pc'[t] = "Respond"
                 /\ ~Response(ret'[t]).success
                 /\ unanswered'[t] = 1
                 /\ RouterFrame
         /\ (pc[t] = "Respond" /\ pc'[t] # "Respond" /\ form[t] = "not json")
              => /\ pc'[t] = "idle"
                 /\ unanswered'[t] = 0
                 /\ RouterFrame
      ]_vars

\* A line that is not JSON has its error response ready while a pool holds a
\* connection.
C22_Witness ==
    \E t \in Tasks :
        /\ pc[t] = "Respond"
        /\ form[t] = "not json"
        /\ ret[t].err = ErrSyntax
        /\ \E m \in Modules : Resident(m) = 1

\* C23 as stated: every response carries exactly one of data and error:
\* data and no error when success is true, error and no data when it is false.
C23_ExactlyOneOfDataError ==
    \A t \in Tasks :
        pc[t] = "Respond"
          => LET resp == Envelope(req[t].action, ret[t])
                 wire == Encode(resp)
             IN IF resp.Success
                THEN "data" \in wire /\ "error" \notin wire
                ELSE "error" \in wire /\ "data" \notin wire

\* C23, amended: a response never carries both fields: with success false it
\* carries error and no data; with success true it carries no error, and it
\* carries data exactly when the handler passed a value to SuccessResponse
\* (connect, search_uids, fetch_messages), and neither field otherwise.
C23_DataOrErrorBySuccess ==
    \A t \in Tasks :
        pc[t] = "Respond"
          => LET resp == Envelope(req[t].action, ret[t])
                 wire == Encode(resp)
             IN IF resp.Success
                THEN /\ "error" \notin wire
                     /\ "data" \in wire
                          <=> req[t].action \in {"connect", "search_uids",
                                                 "fetch_messages"}
                ELSE "error" \in wire /\ "data" \notin wire

\* A close has succeeded and its response carries neither data nor error.
C23_Witness ==
    \E t \in Tasks :
        /\ pc[t] = "Respond"
        /\ req[t].action = "close"
        /\ ret[t].err = ErrNil
        /\ Encode(Envelope(req[t].action, ret[t])) = {"success"}

\* C24: on each caller connection at most one request line is unanswered at
\* any time, none while the task is reading, and none when the task is over.
C24_StrictRequestResponse ==
    \A t \in Tasks :
        /\ unanswered[t] \in {0, 1}
        /\ pc[t] = "idle" => unanswered[t] = 0
        /\ pc[t] \in Returned => unanswered[t] = 0

\* C25: once the shutdown signal has arrived no task returns from a request
\* line it has read without answering it, and a task is over only when its
\* caller's stream is closed.
C25_TasksFinishAfterShutdown ==
    ctxDone =>
        \A t \in Tasks :
            /\ pc[t] # "ReturnCtx"
            /\ exited => pc[t] \in {"ReturnEOF", "ReturnWrite"}

\* C26: a request whose params do not decode, and a send whose message_b64
\* is not base64, is answered with an error; serving it issues no command to
\* a mail server and changes no pool entry, no handle counter and no
\* Connection.
C26_DecodingErrorNoSideEffects ==
    [][\A t \in Tasks :
         (pc'[t] # pc[t]
            /\ (form[t] \in {"bad params", "bad base64"}
                  \/ form'[t] \in {"bad params", "bad base64"}))
           => /\ connections' = connections
              /\ nextID' = nextID
              /\ connVars' = connVars
              /\ logouts' = logouts
              /\ cmd'[t] = "none"
              /\ pc'[t] \in {"Get", "GetBody", "GetDone", "Respond", "idle",
                             "ReturnWrite"}
              /\ pc'[t] = "Respond" => ~Response(ret'[t]).success
      ]_vars

\* A send with a valid handle of a connected session and a message that is
\* not base64 has its error response ready.
C26_Witness ==
    \E t \in Tasks :
        /\ pc[t] = "Respond"
        /\ form[t] = "bad base64"
        /\ ret[t].err = ErrBase64
        /\ cur[t] # NoConn
        /\ ~NotConnected(cur[t])

Holds(mu, t) == mu.w = t \/ t \in mu.r

\* Task t is inside a call that waits for a mail server: Connect's dial and
\* login, a command of a data method, Close's Logout or Quit.
Blocked(t) == pc[t] \in {"Connect", "CommandWait", "CloseLogout"}

\* The positions at which a task asks for a lock.
LockPoints == {"Add", "Get", "Remove", "Count", "ConnLock", "Close", "IsClosed"}

\* C28: a task blocked inside a server call holds no pool lock, and the only
\* connection lock it can hold is the lock of the connection it is closing:
\* nothing a task needs for a pool operation or for another connection is
\* kept by a task that waits for a server.
C28_StallIsLocal ==
    \A t \in Tasks :
        Blocked(t)
          => /\ \A m \in Modules : ~Holds(poolMu[m], t)
             /\ \A c \in Conns :
                  Holds(connMu[c], t) => (c = cur[t] /\ pc[t] = "CloseLogout")

\* One task waits for the server's answer to its logout, holding that
\* connection's lock, while another task is inside the pool removing the
\* handle of another connection it has closed.
C28_Witness ==
    \E t \in Tasks : \E u \in Tasks :
        /\ pc[t] = "CloseLogout"
        /\ pc[u] = "RemoveBody"
        /\ cur[u] # cur[t]
        /\ connMu[cur[t]].w = t

\* C29: no task holds a pool lock and a connection lock at the same time,
\* and no task that holds a lock is waiting for another one; so among the
\* tasks waiting for a lock none waits for a task that waits.
C29_LocksNeverNested ==
    \A t \in Tasks :
        LET pools == {m \in Modules : Holds(poolMu[m], t)}
            conns == {c \in Conns : Holds(connMu[c], t)}
        IN /\ pools = {} \/ conns = {}
           /\ Cardinality(pools) + Cardinality(conns) <= 1
           /\ (pools # {} \/ conns # {}) => pc[t] \notin LockPoints

\* One task holds a connection's lock inside Close while the other holds the
\* pool's lock inside Get.
C29_Witness ==
    \E t \in Tasks : \E u \in Tasks :
        /\ pc[t] = "CloseLogout" /\ connMu[cur[t]].w = t
        /\ pc[u] = "GetBody" /\ u \in poolMu[req[u].module].r

\* C30: at every position from which a method reads or writes c.closed or
\* c.client, the task holds that connection's lock.
C30_FieldsAccessedUnderLock ==
    \A t \in Tasks :
        pc[t] \in {"ConnCheck", "CloseCheck", "CloseLogout", "IsClosedRead",
                   "GetClient"}
          => Holds(connMu[cur[t]], t)

\* ----------------------------------------- claims about the state invariants

\* C31: the handles the pool has returned are pairwise different, every
\* connection added and not removed is resident under its handle, and the
\* map is only written by a task that holds the lock alone and only read by a
\* task that holds it while no writer does: every Get and Count sees the map
\* that the completed insertions and deletions produced.
C31_PoolOperationsAtomic ==
    \A m \in Modules :
        /\ \A i \in DOMAIN issued[m] : \A j \in DOMAIN issued[m] :
             issued[m][i].handle = issued[m][j].handle => i = j
        /\ DOMAIN connections[m] = Live(m)
        /\ \A h \in Live(m) : connections[m][h] = AddedConn(m, h)
        /\ \A t \in Tasks :
             req[t].module = m =>
               /\ pc[t] \in {"AddCheck", "AddInsert", "RemoveBody"}
                    => (poolMu[m].w = t /\ poolMu[m].r = {})
               /\ pc[t] \in {"GetBody", "CountBody"}
                    => (t \in poolMu[m].r /\ poolMu[m].w = 0)

\* One task is inside Add holding the lock while the other waits to enter
\* Add, after an earlier Add has returned a handle.
C31_Witness ==
    \E t \in Tasks : \E u \in Tasks :
        /\ pc[t] = "AddInsert"
        /\ pc[u] = "Add"
        /\ Len(issued[PoolUnderTest]) = 1

\* C36: every resident handle h has 1 <= h < nextID, nextID never decreases,
\* and Count returns the number of handles returned by a successful Add and
\* not removed since.
C36_PoolInvariants ==
    [][/\ \A m \in Modules :
            /\ \A h \in DOMAIN connections[m] : 1 <= h /\ h < nextID[m]
            /\ \A h \in DOMAIN connections'[m] : 1 <= h /\ h < nextID'[m]
            /\ nextID'[m] >= nextID[m]
       /\ \A t \in Tasks :
            (pc[t] = "CountBody" /\ pc'[t] = "CountDone")
              => ret'[t].val = Cardinality(Live(req[t].module))
      ]_vars

\* Count has returned 1 after two Adds and the removal of the first handle.
C36_Witness ==
    \E t \in Tasks :
        /\ pc[t] = "CountDone"
        /\ ret[t].val = 1
        /\ Len(issued[PoolUnderTest]) = 2
        /\ removed[PoolUnderTest] = {1}

\* C34: every object resident in a handler's pool is a Connection of that
\* handler's module, every connection a handler has resolved is one its own
\* module created, and no downcast has failed.
C34_SeparatePools ==
    /\ ~crashed
    /\ \A m \in Modules : \A h \in DOMAIN connections[m] :
         kind[connections[m][h]] = m
    /\ \A t \in Tasks :
         (cur[t] # NoConn /\ req[t].module \in Modules)
           => kind[cur[t]] = req[t].module

\* A request of one module on handle 1 is answered "invalid connection
\* handle" while handle 1 of the other module's pool holds a connection.
C34_Witness ==
    \E t \in Tasks : \E m \in Modules :
        /\ pc[t] = "Respond"
        /\ req[t].module \in Modules \ {m}
        /\ req[t].action \in {"close", "noop"}
        /\ req[t].handle = 1
        /\ ret[t].err = ErrInvalidHandle
        /\ 1 \in DOMAIN connections[m]
        /\ removed[req[t].module] = {}

\* C35: for every Connection that Connect has returned, whenever Close is not
\* holding its lock, closed is true exactly when client is nil.
C35_ClosedIffNoClient ==
    \A c \in Allocated :
        (\A t \in Tasks :
            ~(pc[t] \in {"CloseCheck", "CloseLogout"} /\ cur[t] = c))
          => (closed[c] <=> client[c] = 0)

\* A connection whose logout failed is closed, without client, unlocked and
\* still resident in its pool.
C35_Witness ==
    \E c \in Allocated :
        /\ closed[c] /\ client[c] = 0
        /\ connMu[c] = Unlocked
        /\ \E h \in DOMAIN connections[kind[c]] : connections[kind[c]][h] = c

\* C33: no command of a data operation is issued on a connection once Close
\* has returned on it (Close has cleared the client and released the lock).
C33_NoCommandAfterClose ==
    [][\A t \in Tasks :
         (pc[t] = "Command" /\ pc'[t] = "CommandWait")
           => ~(closed[cur[t]] /\ client[cur[t]] = 0
                  /\ connMu[cur[t]].w = 0)
      ]_vars

\* ------------------------------------------------ claims about the framing

\* C32: the listener is never closed before the cancellation is visible, a
\* caller connection is accepted only while the listener is open and main has
\* not returned, and once the signal has arrived main returns.
C32_AcceptLoopStops ==
    /\ [](~listenerOpen => ctxDone)
    /\ [][\A t \in Tasks :
            (pc[t] \in Returned /\ pc'[t] = "idle") => (listenerOpen /\ ~exited)
         ]_vars
    /\ [][exited => exited']_vars
    /\ ctxDone ~> (exited \/ crashed)

\* main has returned after the signal while a caller connection has ended
\* and another is still open.
C32_Witness ==
    /\ exited /\ ctxDone /\ ~listenerOpen
    /\ \E t \in Tasks : pc[t] \in Returned
    /\ \E t \in Tasks : pc[t] = "idle"

\* C37: no line a caller sends, whatever its length, makes the task return:
\* the task never ends on a line that is too long.
C37_NoLineLengthLimit ==
    \A t \in Tasks : pc[t] # "ReturnTooLong"

\* A FetchMessage that can never return: it waits for the done channel while
\* its helper goroutine, inside client.UidFetch, waits to send on the full
\* messages channel that nobody reads any more.
FetchStuck(t) ==
    /\ pc[t] = "FetchWaitDone"
    /\ fetch[t].helper = "UidFetch"
    /\ fetch[t].pending > 0
    /\ Len(fetch[t].messages) = MessagesCap

\* C38: FetchMessage is never stuck with its helper goroutine blocked, the
\* helper is over when FetchMessage has returned, and a FetchMessage whose
\* fetch command failed returns the fetch failure.
C38_FetchMessageReturns ==
    \A t \in Tasks :
        /\ ~FetchStuck(t)
        /\ (pc[t] = "ApiDone" /\ req[t].action = "FetchMessage"
            /\ fetch[t].helper # "none")
           => /\ fetch[t].helper = "returned"
              /\ fetch[t].status \in Causes
                   => ret[t].err = CmdError("UID FETCH", fetch[t].status, 0)

====
